---- MODULE Spec2Model ----
(***************************************************************************)
(* ScannerHandler of barcodebuddy (src/barcodebuddy/app/scanner.py): the   *)
(* multi-device USB barcode listener.  One Reader thread per device reads  *)
(* HID reports or input events, assembles characters in a per-device       *)
(* buffer and hands the buffer to the callback on Enter.  start() and the  *)
(* hot-plug monitor spawn the Readers; stop() clears the running flag.     *)
(***************************************************************************)
EXTENDS Integers, Sequences, FiniteSets, TLC

(***************************************************************************)
(* Bounds of the model.                                                    *)
(***************************************************************************)
\* characters one scanner sends in a run of the stable-host model
MaxFed == 4
\* characters one scanner sends in a run of the full-lifecycle model
MaxFedSmall == 2
\* key slots of one HID report that may hold a non-zero usage code
MaxKeys == 2
\* threads ever started by one handler
MaxThreads == 3
\* calls of start() in the model of the class under an arbitrary caller
MaxStarts == 2
\* characters one scanner sends in a run of the two-device fault model
MaxFedIso == 1
\* device nodes on the host of the discovery model
MaxNodes == 3
\* highest index of a hidraw node on the host of the discovery model
MaxHidrawIndex == 7
\* highest index of an input-event node on the host of the discovery model
MaxEventIndex == 0
\* quantity barcodes one scanner sends in a run of the callback model
MaxCoreScans == 1
\* characters one scanner sends in a run of the decoder model
MaxFedDecode == 2
\* highest key code a scanner sends in the decoder model
MaxCode == 255
\* key slots in use in a report of the key-slot model
MaxSlots == 3
\* characters the scanner sends in a run of the key-slot model
MaxFedSlots == 3
\* barcodes the one scanner of the booking model scans
MaxBookScans == 3

(***************************************************************************)
(* Program constants.                                                      *)
(***************************************************************************)
\* f.read(8): size of one HID keyboard report
HidFrameSize == 8
\* event_size = 24: size of one struct input_event
EventSize == 24
\* for i in range(20): hidraw candidates probed
HidrawRange == 20
\* for i in range(10): input-event candidates probed
EventRange == 10
\* key_code == 40: HID usage code of Enter
HidEnter == 40
\* code == 28: input-event key code of Enter
InputEnter == 28
\* if len(recent_scans) > 50: the scans kept
MaxRecent == 50

(***************************************************************************)
(* Device paths.  _find_all_devices probes /dev/hidraw0..19 and, when none *)
(* is accessible, /dev/input/event0..9; the model keeps the first paths of *)
(* each range, in the order the loops visit them.                          *)
(***************************************************************************)
H0 == "/dev/hidraw0"
H1 == "/dev/hidraw1"
E0 == "/dev/input/event0"
HidrawCandidates == <<H0, H1>>
EventCandidates == <<E0>>
Paths == {H0, H1, E0}

\* 'hidraw' in device
IsHidraw(device) == device \in {H0, H1}

(***************************************************************************)
(* The decoder tables.                                                     *)
(***************************************************************************)
HID_TO_CHAR ==
    (4 :> "A") @@ (5 :> "B") @@ (6 :> "C") @@ (7 :> "D") @@ (8 :> "E") @@
    (9 :> "F") @@ (10 :> "G") @@ (11 :> "H") @@ (12 :> "I") @@ (13 :> "J") @@
    (14 :> "K") @@ (15 :> "L") @@ (16 :> "M") @@ (17 :> "N") @@ (18 :> "O") @@
    (19 :> "P") @@ (20 :> "Q") @@ (21 :> "R") @@ (22 :> "S") @@ (23 :> "T") @@
    (24 :> "U") @@ (25 :> "V") @@ (26 :> "W") @@ (27 :> "X") @@ (28 :> "Y") @@
    (29 :> "Z") @@
    (30 :> "1") @@ (31 :> "2") @@ (32 :> "3") @@ (33 :> "4") @@ (34 :> "5") @@
    (35 :> "6") @@ (36 :> "7") @@ (37 :> "8") @@ (38 :> "9") @@ (39 :> "0") @@
    (40 :> "\n") @@
    (45 :> "-") @@ (46 :> "=") @@ (47 :> "[") @@ (48 :> "]")

letter_map ==
    (16 :> "Q") @@ (17 :> "W") @@ (18 :> "E") @@ (19 :> "R") @@ (20 :> "T") @@
    (21 :> "Y") @@ (22 :> "U") @@ (23 :> "I") @@ (24 :> "O") @@ (25 :> "P") @@
    (30 :> "A") @@ (31 :> "S") @@ (32 :> "D") @@ (33 :> "F") @@ (34 :> "G") @@
    (35 :> "H") @@ (36 :> "J") @@ (37 :> "K") @@ (38 :> "L") @@
    (44 :> "Z") @@ (45 :> "X") @@ (46 :> "C") @@ (47 :> "V") @@ (48 :> "B") @@
    (49 :> "N") @@ (50 :> "M") @@
    (12 :> "-") @@ (13 :> "=")

\* str(n) for one decimal digit
DigitStr(n) == <<"0", "1", "2", "3", "4", "5", "6", "7", "8", "9">>[n + 1]


(***************************************************************************)
(* Handling of one key.  Both handlers return the new buffer and whether   *)
(* the callback is invoked with the buffer (which is then still unchanged: *)
(* the reset follows the callback's return).                               *)
(***************************************************************************)
\* HidKey with the character put in front of the buffer
HidKeyPrepends(buf, key_code) ==
    IF key_code = 0 THEN [buf |-> buf, call |-> FALSE]
    ELSE IF key_code = HidEnter
         THEN [buf |-> buf, call |-> buf # <<>>]
    ELSE IF key_code \in DOMAIN HID_TO_CHAR
         THEN [buf |-> <<HID_TO_CHAR[key_code]>> \o buf, call |-> FALSE]
    ELSE [buf |-> buf, call |-> FALSE]

\* HidKey with an empty key slot taken as the end of the barcode
HidKeyZeroEnds(buf, key_code) ==
    IF key_code = 0 \/ key_code = HidEnter
    THEN [buf |-> buf, call |-> buf # <<>>]
    ELSE IF key_code \in DOMAIN HID_TO_CHAR
         THEN [buf |-> Append(buf, HID_TO_CHAR[key_code]), call |-> FALSE]
    ELSE [buf |-> buf, call |-> FALSE]

\* HidKey without the test for Enter before the table lookup
HidKeyEnterAppended(buf, key_code) ==
    IF key_code = 0 THEN [buf |-> buf, call |-> FALSE]
    ELSE IF key_code \in DOMAIN HID_TO_CHAR
         THEN [buf |-> Append(buf, HID_TO_CHAR[key_code]),
               call |-> key_code = HidEnter]
    ELSE [buf |-> buf, call |-> FALSE]

\* HidKey with usage code 44 (space) in the table
HidKeyMapsSpace(buf, key_code) ==
    IF key_code = 0 THEN [buf |-> buf, call |-> FALSE]
    ELSE IF key_code = HidEnter
         THEN [buf |-> buf, call |-> buf # <<>>]
    ELSE IF key_code \in DOMAIN HID_TO_CHAR \cup {44}
         THEN [buf |-> Append(buf, IF key_code = 44 THEN " "
                                   ELSE HID_TO_CHAR[key_code]),
               call |-> FALSE]
    ELSE [buf |-> buf, call |-> FALSE]

\* body of "for key_code in keys" in _listen_hidraw
HidKey(buf, key_code) ==
    IF key_code = 0 THEN [buf |-> buf, call |-> FALSE]
    ELSE IF key_code = HidEnter
         THEN [buf |-> buf, call |-> buf # <<>>]
    ELSE IF key_code \in DOMAIN HID_TO_CHAR
         THEN [buf |-> Append(buf, HID_TO_CHAR[key_code]), call |-> FALSE]
    ELSE [buf |-> buf, call |-> FALSE]

\* InputKeycode without the test for an empty buffer on Enter
InputKeycodeEnterAlways(buf, code) ==
    IF code = InputEnter
    THEN [buf |-> buf, call |-> TRUE]
    ELSE IF 2 <= code /\ code <= 11
         THEN [buf |-> Append(buf, DigitStr((code - 1) % 10)), call |-> FALSE]
    ELSE IF code \in DOMAIN letter_map
         THEN [buf |-> Append(buf, letter_map[code]), call |-> FALSE]
    ELSE [buf |-> buf, call |-> FALSE]

\* InputKeycode with the digits taken as str((code - 2) % 10)
InputKeycodeDigitsShifted(buf, code) ==
    IF code = InputEnter
    THEN [buf |-> buf, call |-> buf # <<>>]
    ELSE IF 2 <= code /\ code <= 11
         THEN [buf |-> Append(buf, DigitStr((code - 2) % 10)), call |-> FALSE]
    ELSE IF code \in DOMAIN letter_map
         THEN [buf |-> Append(buf, letter_map[code]), call |-> FALSE]
    ELSE [buf |-> buf, call |-> FALSE]

\* _handle_input_keycode
InputKeycode(buf, code) ==
    IF code = InputEnter
    THEN [buf |-> buf, call |-> buf # <<>>]
    ELSE IF 2 <= code /\ code <= 11
         THEN [buf |-> Append(buf, DigitStr((code - 1) % 10)), call |-> FALSE]
    ELSE IF code \in DOMAIN letter_map
         THEN [buf |-> Append(buf, letter_map[code]), call |-> FALSE]
    ELSE [buf |-> buf, call |-> FALSE]

KeyStep(device, buf, code) ==
    IF IsHidraw(device) THEN HidKey(buf, code) ELSE InputKeycode(buf, code)

\* The keys of one frame, handled in order up to the first callback
\* invocation: the buffer then, the keys not yet handled, and whether the
\* callback is being invoked.
RECURSIVE HandleKeys(_, _, _)
HandleKeys(device, buf, keys) ==
    IF keys = <<>>
    THEN [buf |-> buf, rest |-> <<>>, call |-> FALSE]
    ELSE LET r == KeyStep(device, buf, Head(keys))
         IN  IF r.call
             THEN [buf |-> r.buf, rest |-> Tail(keys), call |-> TRUE]
             ELSE HandleKeys(device, r.buf, Tail(keys))

\* HidReportKeys with the modifier byte taken as a key
HidReportKeysWithModifier(data) == <<data[1]>> \o SubSeq(data, 3, HidFrameSize)

\* keys = data[2:8] of an 8-byte HID report
HidReportKeys(data) == SubSeq(data, 3, HidFrameSize)

\* EventKeys without the test of value
EventKeysAnyValue(ev) == IF ev.type = 1 THEN <<ev.code>> ELSE <<>>

\* struct.unpack('llHHI', data) and the EV_KEY / key-down filter
EventKeys(ev) == IF ev.type = 1 /\ ev.value = 1 THEN <<ev.code>> ELSE <<>>

(***************************************************************************)
(* Discovery.                                                              *)
(***************************************************************************)
\* the candidates of cands that exist and open for reading, in order
RECURSIVE Accessible(_, _)
Accessible(cands, status) ==
    IF cands = <<>> THEN <<>>
    ELSE IF status[Head(cands)] = "ok"
         THEN <<Head(cands)>> \o Accessible(Tail(cands), status)
         ELSE Accessible(Tail(cands), status)

\* _find_all_devices
FindAllDevices(status) ==
    LET devices == Accessible(HidrawCandidates, status)
    IN  IF devices = <<>> THEN Accessible(EventCandidates, status) ELSE devices

\* device in self.active_devices
InList(device, list) == \E i \in 1..Len(list) : list[i] = device

\* list.remove(device): drops the first occurrence
RECURSIVE ListRemove(_, _)
ListRemove(list, device) ==
    IF list = <<>> THEN <<>>
    ELSE IF Head(list) = device THEN Tail(list)
    ELSE <<Head(list)>> \o ListRemove(Tail(list), device)

(***************************************************************************)
(* State.                                                                  *)
(***************************************************************************)
VARIABLES
    running,          \* self.running
    threads,          \* self.threads: ids of the threads appended
    active_devices,   \* self.active_devices
    barcode_buffers,  \* self._barcode_buffers: device -> buffer
    th,               \* every thread started: kind, device, position, locals
    main,             \* the caller's thread: position inside start()
    starts,           \* calls of start() so far
    dev,              \* the host: device -> "ok" | "denied" | "gone"
    cfg,              \* the host's device nodes and its scanners' key sets
    log,              \* device -> callback invocations for it, in order
    hist,             \* device -> what its scanner has sent so far
    current_quantity, \* main.py: the global current_quantity
    recent_scans,     \* main.py: the global recent_scans, newest first
    hb,               \* thread -> its activation of handle_barcode
    scanner_devices,  \* main.py: what a caller got from scanner.active_devices
    current_mode,     \* main.py: the global current_mode
    grocy_calls       \* the stock operations asked of grocy_client, in order

\* the state of the application (main.py)
core == <<current_quantity, recent_scans, hb, scanner_devices, current_mode,
          grocy_calls>>

vars == <<running, threads, active_devices, barcode_buffers, th, main, starts,
          dev, cfg, log, hist, core>>

Tids == 1..MaxThreads
NoThread == [kind |-> "none", dev |-> "", pc |-> "none", keys |-> <<>>,
             handle |-> FALSE, devices |-> <<>>, tid |-> 0]
IdleMain == [pc |-> "idle", devices |-> <<>>, tid |-> 0]
\* nothing obtained from scanner.active_devices yet
NoView == [ref |-> "none", at |-> <<>>]
\* no activation of handle_barcode
NoCall == [pc |-> "none", barcode |-> <<>>, status |-> "unknown",
           quantity_to_add |-> 0, loaded |-> 0, amount |-> 0,
           via |-> "none"]

\* threads started so far; thread ids are handed out in order
Started == {t \in Tids : th[t].kind # "none"}
FreeTid == Cardinality(Started) + 1
CanSpawn == FreeTid \in Tids

NewReader(device) ==
    [NoThread EXCEPT !.kind = "reader", !.dev = device, !.pc = "start"]
NewMonitor == [NoThread EXCEPT !.kind = "monitor", !.pc = "top"]

\* a Reader thread that has not finished
Alive(t) == th[t].kind = "reader" /\ th[t].pc # "done"
ReadersOf(device) == {t \in Tids : Alive(t) /\ th[t].dev = device}

(***************************************************************************)
(* The scanners.  A scanner sends the codes of its key set; the histories  *)
(* below record what each Reader was given, for the properties.            *)
(***************************************************************************)
\* key sets of the stable-host model: two characters, Enter, an ignored code
RichCodes(device) ==
    IF IsHidraw(device) THEN {0, 4, 30, 40} ELSE {1, 30, 2, 28}
\* key sets of the full-lifecycle model: one character and Enter
SmallCodes(device) ==
    IF device = H0 THEN {4, 40}
    ELSE IF device = H1 THEN {5, 40}
    ELSE {30, 28}
Codes(device) == IF cfg.rich THEN RichCodes(device) ELSE SmallCodes(device)
Cap == IF cfg.rich THEN MaxFed ELSE MaxFedSmall
Modifiers == IF cfg.rich THEN {0} ELSE {0, 2}

\* the HID reports a scanner sends: modifier byte, reserved byte, up to
\* MaxKeys key slots in use, the other slots zero
Reports(device) ==
    {<<m, 0>> \o ks \o [i \in 1..(HidFrameSize - 2 - MaxKeys) |-> 0] :
        m \in Modifiers, ks \in [1..MaxKeys -> Codes(device)]}
\* the input events a device sends: type, code, value
Events(device) ==
    [type : {0, 1}, code : Codes(device), value : {0, 1, 2}]

FrameKeys(device, frame) ==
    IF IsHidraw(device) THEN HidReportKeys(frame) ELSE EventKeys(frame)
Frames(device) ==
    IF IsHidraw(device) THEN Reports(device) ELSE Events(device)

\* the decoder tables as the specification states them
IsEnter(device, code) ==
    IF IsHidraw(device) THEN code = 40 ELSE code = 28
Letters ==
    <<"A", "B", "C", "D", "E", "F", "G", "H", "I", "J", "K", "L", "M",
      "N", "O", "P", "Q", "R", "S", "T", "U", "V", "W", "X", "Y", "Z">>
Qwerty ==
    (16 :> "Q") @@ (17 :> "W") @@ (18 :> "E") @@ (19 :> "R") @@ (20 :> "T") @@
    (21 :> "Y") @@ (22 :> "U") @@ (23 :> "I") @@ (24 :> "O") @@ (25 :> "P") @@
    (30 :> "A") @@ (31 :> "S") @@ (32 :> "D") @@ (33 :> "F") @@ (34 :> "G") @@
    (35 :> "H") @@ (36 :> "J") @@ (37 :> "K") @@ (38 :> "L") @@
    (44 :> "Z") @@ (45 :> "X") @@ (46 :> "C") @@ (47 :> "V") @@ (48 :> "B") @@
    (49 :> "N") @@ (50 :> "M")
Mapped(device, code) ==
    IF IsHidraw(device)
    THEN code \in (4..39) \cup (45..48)
    ELSE code \in (2..13) \cup DOMAIN Qwerty
CharOf(device, code) ==
    IF IsHidraw(device)
    THEN IF code \in 4..29 THEN Letters[code - 3]
         ELSE IF code \in 30..38 THEN DigitStr(code - 29)
         ELSE IF code = 39 THEN "0"
         ELSE <<"-", "=", "[", "]">>[code - 44]
    ELSE IF code \in 2..10 THEN DigitStr(code - 1)
         ELSE IF code = 11 THEN "0"
         ELSE IF code = 12 THEN "-"
         ELSE IF code = 13 THEN "="
         ELSE Qwerty[code]
Decoded(device, codes) == [i \in 1..Len(codes) |-> CharOf(device, codes[i])]

\* What the scanner of a device has sent: the mapped codes since the last
\* Enter (run), all mapped codes (sent), the number of Enters that closed a
\* non-empty run (scans), whether any Enter was sent (entered).
NoHist == [run |-> <<>>, sent |-> <<>>, scans |-> 0, entered |-> FALSE]
RECURSIVE HistAfter(_, _, _)
HistAfter(device, h, ks) ==
    IF ks = <<>> THEN h
    ELSE HistAfter(device,
                   IF IsEnter(device, Head(ks))
                   THEN [h EXCEPT !.run = <<>>, !.entered = TRUE,
                                  !.scans = IF h.run # <<>> THEN @ + 1 ELSE @]
                   ELSE IF Mapped(device, Head(ks))
                   THEN [h EXCEPT !.run = Append(@, Head(ks)),
                                  !.sent = Append(@, Head(ks))]
                   ELSE h,
                   Tail(ks))
NumMapped(device, ks) ==
    Cardinality({i \in 1..Len(ks) : Mapped(device, ks[i])})
RECURSIVE SumLen(_)
SumLen(entries) ==
    IF entries = <<>> THEN 0
    ELSE Len(Head(entries).barcode) + SumLen(Tail(entries))
\* characters the scanner of a device has sent so far
Fed(device) ==
    SumLen(log[device])
    + (IF device \in DOMAIN barcode_buffers
       THEN Len(barcode_buffers[device]) ELSE 0)

(***************************************************************************)
(* Construction.                                                           *)
(***************************************************************************)
\* __init__, on a host whose device nodes are the set host
InitHandler(host, rich) ==
    /\ running = FALSE
    /\ threads = <<>>
    /\ active_devices = <<>>
    /\ barcode_buffers = [d \in {} |-> <<>>]
    /\ th = [t \in Tids |-> NoThread]
    /\ main = IdleMain
    /\ starts = 0
    /\ dev \in {s \in [Paths -> {"ok", "gone"}] :
                   \A d \in Paths \ host : s[d] = "gone"}
    /\ cfg = [host |-> host, rich |-> rich]
    /\ log = [d \in Paths |-> <<>>]
    /\ hist = [d \in Paths |-> NoHist]
    /\ current_quantity = 0
    /\ recent_scans = <<>>
    /\ hb = [t \in Tids |-> NoCall]
    /\ scanner_devices = NoView
    /\ current_mode = "add"
    /\ grocy_calls = <<>>

(***************************************************************************)
(* start() and stop(), run by the caller's thread.                         *)
(***************************************************************************)
\* StartCall that gives up when the discovery finds nothing
StartCallWithoutMonitor ==
    /\ main.pc = "idle"
    /\ running' = TRUE
    /\ starts' = starts + 1
    /\ LET devices == FindAllDevices(dev)
       IN  IF devices = <<>>
           THEN UNCHANGED <<th, threads, main>>
           ELSE /\ main' = [pc |-> "spawn", devices |-> devices, tid |-> 0]
                /\ UNCHANGED <<th, threads>>
    /\ UNCHANGED <<active_devices, barcode_buffers, dev, cfg, log, hist,
                   core>>

\* start(): the flag, the discovery, and the monitor when nothing was found
StartCall ==
    /\ main.pc = "idle"
    /\ running' = TRUE
    /\ starts' = starts + 1
    /\ LET devices == FindAllDevices(dev)
       IN  IF devices = <<>>
           THEN /\ CanSpawn
                /\ th' = [th EXCEPT ![FreeTid] = NewMonitor]
                /\ threads' = Append(threads, FreeTid)
                /\ main' = main
           ELSE /\ main' = [pc |-> "spawn", devices |-> devices, tid |-> 0]
                /\ UNCHANGED <<th, threads>>
    /\ UNCHANGED <<active_devices, barcode_buffers, dev, cfg, log, hist,
                   core>>

\* start(): thread.start() for the next device
StartSpawn ==
    /\ main.pc = "spawn"
    /\ CanSpawn
    /\ th' = [th EXCEPT ![FreeTid] = NewReader(Head(main.devices))]
    /\ main' = [main EXCEPT !.pc = "append", !.tid = FreeTid]
    /\ UNCHANGED <<running, threads, active_devices, barcode_buffers, starts,
                   dev, cfg, log, hist,
                   core>>

\* start(): self.threads.append(thread); self.active_devices.append(device)
StartAppend ==
    /\ main.pc = "append"
    /\ threads' = Append(threads, main.tid)
    /\ active_devices' = Append(active_devices, Head(main.devices))
    /\ main' = IF Tail(main.devices) = <<>> THEN IdleMain
               ELSE [pc |-> "spawn", devices |-> Tail(main.devices), tid |-> 0]
    /\ UNCHANGED <<running, barcode_buffers, th, starts, dev, cfg, log, hist,
                   core>>

\* stop(): the flag; the joins wait at most 2 s each and change nothing
StopCall ==
    /\ main.pc = "idle"
    /\ running' = FALSE
    /\ UNCHANGED <<threads, active_devices, barcode_buffers, th, main, starts,
                   dev, cfg, log, hist,
                   core>>

\* stop() that also forgets the threads and the devices
StopBeginClears ==
    /\ main.pc = "idle"
    /\ running' = FALSE
    /\ threads' = <<>>
    /\ active_devices' = <<>>
    /\ main' = [pc |-> "join", devices |-> <<>>, tid |-> 0]
    /\ UNCHANGED <<barcode_buffers, th, starts, dev, cfg, log, hist,
                   core>>

\* stop() seen as the call and its return: self.running = False, after
\* which the caller is in the loop of joins
StopBegin ==
    /\ main.pc = "idle"
    /\ running' = FALSE
    /\ main' = [pc |-> "join", devices |-> <<>>, tid |-> 0]
    /\ UNCHANGED <<threads, active_devices, barcode_buffers, th, starts,
                   dev, cfg, log, hist,
                   core>>

\* for thread in self.threads: thread.join(timeout=2) is through (each join
\* returns when its thread has ended or after 2 s); stop() returns
StopJoined ==
    /\ main.pc = "join"
    /\ main' = IdleMain
    /\ UNCHANGED <<running, threads, active_devices, barcode_buffers, th,
                   starts, dev, cfg, log, hist,
                   core>>

(***************************************************************************)
(* The hot-plug monitor thread.                                            *)
(***************************************************************************)
\* while self.running
MonitorTop(t) ==
    /\ th[t].kind = "monitor" /\ th[t].pc = "top"
    /\ th' = [th EXCEPT ![t].pc = IF running THEN "sleep" ELSE "done"]
    /\ UNCHANGED <<running, threads, active_devices, barcode_buffers, main,
                   starts, dev, cfg, log, hist,
                   core>>

\* MonitorScan that drops the listed devices its discovery did not return
MonitorScanPrunes(t) ==
    /\ th[t].kind = "monitor" /\ th[t].pc = "sleep"
    /\ LET current_devices == FindAllDevices(dev)
       IN  /\ th' = [th EXCEPT ![t].devices = current_devices,
                               ![t].pc = IF current_devices = <<>> THEN "top"
                                         ELSE "visit"]
           /\ active_devices' =
                 SelectSeq(active_devices,
                           LAMBDA d : InList(d, current_devices))
    /\ UNCHANGED <<running, threads, barcode_buffers, main,
                   starts, dev, cfg, log, hist,
                   core>>

\* time.sleep(5); current_devices = self._find_all_devices()
MonitorScan(t) ==
    /\ th[t].kind = "monitor" /\ th[t].pc = "sleep"
    /\ LET current_devices == FindAllDevices(dev)
       IN  th' = [th EXCEPT ![t].devices = current_devices,
                            ![t].pc = IF current_devices = <<>> THEN "top"
                                      ELSE "visit"]
    /\ UNCHANGED <<running, threads, active_devices, barcode_buffers, main,
                   starts, dev, cfg, log, hist,
                   core>>

\* for device in current_devices: if device not in self.active_devices:
\* thread.start()
MonitorVisit(t) ==
    /\ th[t].kind = "monitor" /\ th[t].pc = "visit"
    /\ LET device == Head(th[t].devices)
           rest == Tail(th[t].devices)
       IN  IF InList(device, active_devices)
           THEN th' = [th EXCEPT ![t].devices = rest,
                                 ![t].pc = IF rest = <<>> THEN "top"
                                           ELSE "visit"]
           ELSE /\ CanSpawn
                /\ th' = [th EXCEPT ![FreeTid] = NewReader(device),
                                    ![t].pc = "append", ![t].tid = FreeTid]
    /\ UNCHANGED <<running, threads, active_devices, barcode_buffers, main,
                   starts, dev, cfg, log, hist,
                   core>>

\* self.threads.append(thread); self.active_devices.append(device)
MonitorAppend(t) ==
    /\ th[t].kind = "monitor" /\ th[t].pc = "append"
    /\ threads' = Append(threads, th[t].tid)
    /\ active_devices' = Append(active_devices, Head(th[t].devices))
    /\ LET rest == Tail(th[t].devices)
       IN  th' = [th EXCEPT ![t].devices = rest, ![t].tid = 0,
                            ![t].pc = IF rest = <<>> THEN "top" ELSE "visit"]
    /\ UNCHANGED <<running, barcode_buffers, main, starts, dev, cfg, log, hist,
                   core>>

(***************************************************************************)
(* A Reader thread: _listen_device and the two read loops.                 *)
(***************************************************************************)
\* SetBuffer with one buffer for all devices
SetBufferShared(device, buf) ==
    [d \in DOMAIN barcode_buffers \cup {device} |-> buf]

SetBuffer(device, buf) ==
    [d \in DOMAIN barcode_buffers \cup {device} |->
        IF d = device THEN buf ELSE barcode_buffers[d]]

\* self._barcode_buffers[device] = ""
ListenDeviceInit(t) ==
    /\ th[t].kind = "reader" /\ th[t].pc = "start"
    /\ barcode_buffers' = SetBuffer(th[t].dev, <<>>)
    /\ hist' = [hist EXCEPT ![th[t].dev].run = <<>>]
    /\ th' = [th EXCEPT ![t].pc = "outer"]
    /\ UNCHANGED <<running, threads, active_devices, main, starts, dev, cfg,
                   log,
                   core>>

\* _listen_device: while self.running is false: the loop ends
OuterExit(t) ==
    /\ th[t].kind = "reader" /\ th[t].pc \in {"outer", "eof"}
    /\ ~running
    /\ th' = [th EXCEPT ![t].pc = "exit"]
    /\ UNCHANGED <<running, threads, active_devices, barcode_buffers, main,
                   starts, dev, cfg, log, hist,
                   core>>

\* while self.running: with open(device, 'rb') as f: the open succeeds
OpenOk(t) ==
    /\ th[t].kind = "reader" /\ th[t].pc \in {"outer", "eof"}
    /\ running
    /\ dev[th[t].dev] = "ok"
    /\ th' = [th EXCEPT ![t].pc = "inner", ![t].handle = TRUE]
    /\ UNCHANGED <<running, threads, active_devices, barcode_buffers, main,
                   starts, dev, cfg, log, hist,
                   core>>

\* the open raises PermissionError: except PermissionError: break
OpenDenied(t) ==
    /\ th[t].kind = "reader" /\ th[t].pc \in {"outer", "eof"}
    /\ running
    /\ dev[th[t].dev] = "denied"
    /\ th' = [th EXCEPT ![t].pc = "exit"]
    /\ UNCHANGED <<running, threads, active_devices, barcode_buffers, main,
                   starts, dev, cfg, log, hist,
                   core>>

\* OpenError with the Reader ending as on a denied open
OpenErrorEnds(t) ==
    /\ th[t].kind = "reader" /\ th[t].pc \in {"outer", "eof"}
    /\ running
    /\ dev[th[t].dev] = "gone"
    /\ th' = [th EXCEPT ![t].pc = "exit"]
    /\ UNCHANGED <<running, threads, active_devices, barcode_buffers, main,
                   starts, dev, cfg, log, hist,
                   core>>

\* the open raises another error: except Exception: sleep 5 s and loop
OpenError(t) ==
    /\ th[t].kind = "reader" /\ th[t].pc \in {"outer", "eof"}
    /\ running
    /\ dev[th[t].dev] = "gone"
    /\ th' = [th EXCEPT ![t].pc = "outer"]
    /\ UNCHANGED <<running, threads, active_devices, barcode_buffers, main,
                   starts, dev, cfg, log, hist,
                   core>>

\* _listen_hidraw / _listen_input_event: while self.running is false;
\* leaving the with block closes the handle
InnerExit(t) ==
    /\ th[t].kind = "reader" /\ th[t].pc = "inner"
    /\ ~running
    /\ th' = [th EXCEPT ![t].pc = "outer", ![t].handle = FALSE]
    /\ UNCHANGED <<running, threads, active_devices, barcode_buffers, main,
                   starts, dev, cfg, log, hist,
                   core>>

\* HandleFrom with the callback handed to another thread: the Reader goes
\* on reading while the callback runs
HandleFromAsync(t, buf, keys, entries) ==
    LET device == th[t].dev
        r == HandleKeys(device, buf, keys)
        used == SubSeq(keys, 1, Len(keys) - Len(r.rest))
        before == HistAfter(device, hist[device], SubSeq(used, 1, Len(used) - 1))
        after == HistAfter(device, hist[device], used)
    IN  /\ barcode_buffers' = SetBuffer(device, IF r.call THEN <<>> ELSE r.buf)
        /\ hist' = [hist EXCEPT ![device] = after]
        /\ th' = [th EXCEPT ![t].pc = "inner", ![t].keys = <<>>]
        /\ IF r.call
           THEN log' = [log EXCEPT ![device] = Append(entries,
                           [barcode |-> r.buf, codes |-> before.run,
                            n |-> after.scans, returned |-> FALSE,
                            raised |-> FALSE, by |-> t])]
           ELSE log' = [log EXCEPT ![device] = entries]

\* The keys of a frame handled by Reader t from buffer buf on: the buffer,
\* the callback invocation if one is reached, and the keys left for after it.
\* entries are the invocations for the device so far.
HandleFrom(t, buf, keys, entries) ==
    LET device == th[t].dev
        r == HandleKeys(device, buf, keys)
        used == SubSeq(keys, 1, Len(keys) - Len(r.rest))
        before == HistAfter(device, hist[device], SubSeq(used, 1, Len(used) - 1))
        after == HistAfter(device, hist[device], used)
    IN  /\ barcode_buffers' = SetBuffer(device, r.buf)
        /\ hist' = [hist EXCEPT ![device] = after]
        /\ IF r.call
           THEN /\ log' = [log EXCEPT ![device] = Append(entries,
                              [barcode |-> r.buf, codes |-> before.run,
                               n |-> after.scans, returned |-> FALSE,
                               raised |-> FALSE, by |-> t])]
                /\ th' = [th EXCEPT ![t].pc = "callback", ![t].keys = r.rest]
           ELSE /\ log' = [log EXCEPT ![device] = entries]
                /\ th' = [th EXCEPT ![t].pc = "inner", ![t].keys = <<>>]

\* while self.running: data = f.read(size) returns a whole frame; its keys
\* are handled up to
\* the first self.callback(barcode)
ReadFrame(t, frame) ==
    /\ th[t].kind = "reader" /\ th[t].pc = "inner"
    /\ running
    /\ dev[th[t].dev] = "ok"
    /\ Fed(th[t].dev) + NumMapped(th[t].dev, FrameKeys(th[t].dev, frame)) <= Cap
    /\ HandleFrom(t, barcode_buffers[th[t].dev],
                  FrameKeys(th[t].dev, frame), log[th[t].dev])
    /\ UNCHANGED <<running, threads, active_devices, main, starts, dev, cfg,
                   core>>

\* ShortRead that ends the Reader
ShortReadEnds(t) ==
    /\ th[t].kind = "reader" /\ th[t].pc = "inner"
    /\ running
    /\ th' = [th EXCEPT ![t].pc = "exit", ![t].handle = FALSE]
    /\ UNCHANGED <<running, threads, active_devices, barcode_buffers, main,
                   starts, dev, cfg, log, hist,
                   core>>

\* len(data) < size: break; the Reader is back in _listen_device, at the
\* point "eof" of its loop
ShortRead(t) ==
    /\ th[t].kind = "reader" /\ th[t].pc = "inner"
    /\ running
    /\ th' = [th EXCEPT ![t].pc = "eof", ![t].handle = FALSE]
    /\ UNCHANGED <<running, threads, active_devices, barcode_buffers, main,
                   starts, dev, cfg, log, hist,
                   core>>

\* ReadError with the handle left open
ReadErrorLeaks(t) ==
    /\ th[t].kind = "reader" /\ th[t].pc = "inner"
    /\ running
    /\ th' = [th EXCEPT ![t].pc = "outer"]
    /\ UNCHANGED <<running, threads, active_devices, barcode_buffers, main,
                   starts, dev, cfg, log, hist,
                   core>>

\* f.read raises: except Exception: break
ReadError(t) ==
    /\ th[t].kind = "reader" /\ th[t].pc = "inner"
    /\ running
    /\ th' = [th EXCEPT ![t].pc = "outer", ![t].handle = FALSE]
    /\ UNCHANGED <<running, threads, active_devices, barcode_buffers, main,
                   starts, dev, cfg, log, hist,
                   core>>

\* the invocation of Reader t that has not ended, ended by a return
MarkReturned(entries, t) ==
    [i \in 1..Len(entries) |->
        IF entries[i].by = t /\ ~entries[i].returned
        THEN [entries[i] EXCEPT !.returned = TRUE]
        ELSE entries[i]]

\* CallbackReturn without the reset of the buffer
CallbackReturnKeepsBuffer(t) ==
    /\ th[t].kind = "reader" /\ th[t].pc = "callback"
    /\ HandleFrom(t, barcode_buffers[th[t].dev], th[t].keys,
                  MarkReturned(log[th[t].dev], t))
    /\ UNCHANGED <<running, threads, active_devices, main, starts, dev, cfg,
                   core>>

\* self.callback(barcode) returns; self._barcode_buffers[device] = "";
\* the rest of the frame's keys are handled up to the next callback
CallbackReturn(t) ==
    /\ th[t].kind = "reader" /\ th[t].pc = "callback"
    /\ HandleFrom(t, <<>>, th[t].keys, MarkReturned(log[th[t].dev], t))
    /\ UNCHANGED <<running, threads, active_devices, main, starts, dev, cfg,
                   core>>

MarkRaised(entries, t) ==
    [i \in 1..Len(entries) |->
        IF entries[i].by = t /\ ~entries[i].returned
        THEN [entries[i] EXCEPT !.returned = TRUE, !.raised = TRUE]
        ELSE entries[i]]

\* CallbackRaise with the exception ending the Reader
CallbackRaiseEnds(t) ==
    /\ th[t].kind = "reader" /\ th[t].pc = "callback"
    /\ log' = [log EXCEPT ![th[t].dev] = MarkRaised(@, t)]
    /\ th' = [th EXCEPT ![t].pc = "exit", ![t].handle = FALSE,
                        ![t].keys = <<>>]
    /\ UNCHANGED <<running, threads, active_devices, barcode_buffers, main,
                   starts, dev, cfg, hist,
                   core>>

\* self.callback(barcode) raises: the read loop's except Exception: break;
\* the statement that resets the buffer is not reached
CallbackRaise(t) ==
    /\ th[t].kind = "reader" /\ th[t].pc = "callback"
    /\ log' = [log EXCEPT ![th[t].dev] = MarkRaised(@, t)]
    /\ th' = [th EXCEPT ![t].pc = "outer", ![t].handle = FALSE,
                        ![t].keys = <<>>]
    /\ UNCHANGED <<running, threads, active_devices, barcode_buffers, main,
                   starts, dev, cfg, hist,
                   core>>

\* ReaderExit that drops the last entry of the list instead of its own
ReaderExitPopsLast(t) ==
    /\ th[t].kind = "reader" /\ th[t].pc = "exit"
    /\ active_devices' = IF InList(th[t].dev, active_devices)
                         THEN SubSeq(active_devices, 1, Len(active_devices) - 1)
                         ELSE active_devices
    /\ th' = [th EXCEPT ![t] = [NoThread EXCEPT !.kind = "reader",
                                           !.dev = th[t].dev, !.pc = "done"]]
    /\ UNCHANGED <<running, threads, barcode_buffers, main, starts, dev, cfg,
                   log, hist,
                   core>>

\* if device in self.active_devices: self.active_devices.remove(device);
\* the thread ends
ReaderExit(t) ==
    /\ th[t].kind = "reader" /\ th[t].pc = "exit"
    /\ active_devices' = IF InList(th[t].dev, active_devices)
                         THEN ListRemove(active_devices, th[t].dev)
                         ELSE active_devices
    /\ th' = [th EXCEPT ![t] = [NoThread EXCEPT !.kind = "reader",
                                           !.dev = th[t].dev, !.pc = "done"]]
    /\ UNCHANGED <<running, threads, barcode_buffers, main, starts, dev, cfg,
                   log, hist,
                   core>>

(***************************************************************************)
(* The loops of a Reader step by step: each test of self.running and the   *)
(* open or read that follows it are steps of their own, so that stop() can *)
(* fall between them.  The position "open" is after the test of            *)
(* _listen_device and before open(); "read" is after the test of the read  *)
(* loop, in f.read().                                                      *)
(***************************************************************************)
\* _listen_device: while self.running
OuterTest(t) ==
    /\ th[t].kind = "reader" /\ th[t].pc \in {"outer", "eof"}
    /\ th' = [th EXCEPT ![t].pc = IF running THEN "open" ELSE "exit"]
    /\ UNCHANGED <<running, threads, active_devices, barcode_buffers, main,
                   starts, dev, cfg, log, hist,
                   core>>

\* with open(device, 'rb') as f: the open succeeds
OpenPending(t) ==
    /\ th[t].kind = "reader" /\ th[t].pc = "open"
    /\ dev[th[t].dev] = "ok"
    /\ th' = [th EXCEPT ![t].pc = "inner", ![t].handle = TRUE]
    /\ UNCHANGED <<running, threads, active_devices, barcode_buffers, main,
                   starts, dev, cfg, log, hist,
                   core>>

\* InnerTest that does not look at the flag
InnerTestAlways(t) ==
    /\ th[t].kind = "reader" /\ th[t].pc = "inner"
    /\ th' = [th EXCEPT ![t].pc = "read"]
    /\ UNCHANGED <<running, threads, active_devices, barcode_buffers, main,
                   starts, dev, cfg, log, hist,
                   core>>

\* the read loop: while self.running; when the flag is cleared the loop and
\* the with block end
InnerTest(t) ==
    /\ th[t].kind = "reader" /\ th[t].pc = "inner"
    /\ th' = IF running THEN [th EXCEPT ![t].pc = "read"]
             ELSE [th EXCEPT ![t].pc = "outer", ![t].handle = FALSE]
    /\ UNCHANGED <<running, threads, active_devices, barcode_buffers, main,
                   starts, dev, cfg, log, hist,
                   core>>

\* data = f.read(size) returns a whole frame, whatever the flag is by now;
\* its keys are handled up to the first self.callback(barcode)
ReadPending(t, frame) ==
    /\ th[t].kind = "reader" /\ th[t].pc = "read"
    /\ dev[th[t].dev] = "ok"
    /\ Fed(th[t].dev) + NumMapped(th[t].dev, FrameKeys(th[t].dev, frame)) <= Cap
    /\ HandleFrom(t, barcode_buffers[th[t].dev],
                  FrameKeys(th[t].dev, frame), log[th[t].dev])
    /\ UNCHANGED <<running, threads, active_devices, main, starts, dev, cfg,
                   core>>

\* the pending read comes short: break
ShortReadPending(t) ==
    /\ th[t].kind = "reader" /\ th[t].pc = "read"
    /\ th' = [th EXCEPT ![t].pc = "eof", ![t].handle = FALSE]
    /\ UNCHANGED <<running, threads, active_devices, barcode_buffers, main,
                   starts, dev, cfg, log, hist,
                   core>>

(***************************************************************************)
(* The host: a device node appears, disappears or changes its permissions. *)
(***************************************************************************)
DeviceChange(d, s) ==
    /\ d \in cfg.host
    /\ s \in {"ok", "denied", "gone"} \ {dev[d]}
    /\ dev' = [dev EXCEPT ![d] = s]
    /\ UNCHANGED <<running, threads, active_devices, barcode_buffers, th, main,
                   starts, cfg, log, hist,
                   core>>

(***************************************************************************)
(* _find_all_devices, probe by probe.  The caller's position main holds    *)
(* the loop (pc), its index i (tid), the list devices and the probe        *)
(* handles that are open (handle).                                         *)
(***************************************************************************)
\* f"/dev/hidraw{i}" and f"/dev/input/event{i}"
HidrawPath(i) == "/dev/hidraw" \o ToString(i)
EventPath(i) == "/dev/input/event" \o ToString(i)
AllHidraw == [k \in 1..HidrawRange |-> HidrawPath(k - 1)]
AllEvent == [k \in 1..EventRange |-> EventPath(k - 1)]
AllCandidates ==
    {AllHidraw[k] : k \in 1..HidrawRange} \cup {AllEvent[k] : k \in 1..EventRange}

\* the candidate the loop is at
Candidate ==
    IF main.pc \in {"hidraw", "hopen"}
    THEN HidrawPath(main.tid) ELSE EventPath(main.tid)
InLoop ==
    \/ main.pc = "hidraw" /\ main.tid < HidrawRange
    \/ main.pc = "event" /\ main.tid < EventRange

\* the call: devices = []
FindBegin ==
    /\ main.pc = "idle"
    /\ main' = [pc |-> "hidraw", devices |-> <<>>, tid |-> 0, handle |-> {}]
    /\ UNCHANGED <<running, threads, active_devices, barcode_buffers, th,
                   starts, dev, cfg, log, hist,
                   core>>

\* os.path.exists(path) is false
ProbeMissing ==
    /\ InLoop
    /\ dev[Candidate] = "gone"
    /\ main' = [main EXCEPT !.tid = @ + 1]
    /\ UNCHANGED <<running, threads, active_devices, barcode_buffers, th,
                   starts, dev, cfg, log, hist,
                   core>>

\* with open(path, 'rb') as f: the open succeeds
ProbeOpen ==
    /\ InLoop
    /\ dev[Candidate] = "ok"
    /\ main' = [main EXCEPT !.pc = IF @ = "hidraw" THEN "hopen" ELSE "eopen",
                            !.handle = @ \cup {Candidate}]
    /\ UNCHANGED <<running, threads, active_devices, barcode_buffers, th,
                   starts, dev, cfg, log, hist,
                   core>>

\* ProbeFail with the exception of open() leaving _find_all_devices
ProbeFailEscapes ==
    /\ InLoop
    /\ dev[Candidate] = "denied"
    /\ main' = [main EXCEPT !.pc = "raised"]
    /\ UNCHANGED <<running, threads, active_devices, barcode_buffers, th,
                   starts, dev, cfg, log, hist,
                   core>>

\* the open raises: except Exception (hidraw) / except (event): continue
ProbeFail ==
    /\ InLoop
    /\ dev[Candidate] = "denied"
    /\ main' = [main EXCEPT !.tid = @ + 1]
    /\ UNCHANGED <<running, threads, active_devices, barcode_buffers, th,
                   starts, dev, cfg, log, hist,
                   core>>

\* ProbeAppend with the path put in front of the list
ProbeInsertsFirst ==
    /\ main.pc \in {"hopen", "eopen"}
    /\ main' = [main EXCEPT !.devices = <<Candidate>> \o @,
                            !.handle = @ \ {Candidate},
                            !.tid = @ + 1,
                            !.pc = IF @ = "hopen" THEN "hidraw" ELSE "event"]
    /\ UNCHANGED <<running, threads, active_devices, barcode_buffers, th,
                   starts, dev, cfg, log, hist,
                   core>>

\* devices.append(path); the with block ends and closes the handle
ProbeAppend ==
    /\ main.pc \in {"hopen", "eopen"}
    /\ main' = [main EXCEPT !.devices = Append(@, Candidate),
                            !.handle = @ \ {Candidate},
                            !.tid = @ + 1,
                            !.pc = IF @ = "hopen" THEN "hidraw" ELSE "event"]
    /\ UNCHANGED <<running, threads, active_devices, barcode_buffers, th,
                   starts, dev, cfg, log, hist,
                   core>>

\* HidrawLoopEnd without the test "if not devices"
HidrawLoopEndAlwaysFallsBack ==
    /\ main.pc = "hidraw" /\ main.tid = HidrawRange
    /\ main' = [main EXCEPT !.pc = "event", !.tid = 0]
    /\ UNCHANGED <<running, threads, active_devices, barcode_buffers, th,
                   starts, dev, cfg, log, hist,
                   core>>

\* the hidraw loop is through: if not devices: the event loop, else return
HidrawLoopEnd ==
    /\ main.pc = "hidraw" /\ main.tid = HidrawRange
    /\ main' = IF main.devices = <<>>
               THEN [main EXCEPT !.pc = "event", !.tid = 0]
               ELSE [main EXCEPT !.pc = "returned"]
    /\ UNCHANGED <<running, threads, active_devices, barcode_buffers, th,
                   starts, dev, cfg, log, hist,
                   core>>

\* the event loop is through: return devices
EventLoopEnd ==
    /\ main.pc = "event" /\ main.tid = EventRange
    /\ main' = [main EXCEPT !.pc = "returned"]
    /\ UNCHANGED <<running, threads, active_devices, barcode_buffers, th,
                   starts, dev, cfg, log, hist,
                   core>>

\* hosts of the discovery model: up to MaxNodes device nodes among the first
\* hidraw and input-event paths, each openable or not
NodePaths ==
    {HidrawPath(i) : i \in 0..MaxHidrawIndex}
        \cup {EventPath(i) : i \in 0..MaxEventIndex}
InitDiscovery ==
    /\ running = FALSE
    /\ threads = <<>>
    /\ active_devices = <<>>
    /\ barcode_buffers = [d \in {} |-> <<>>]
    /\ th = [t \in Tids |-> NoThread]
    /\ main = [pc |-> "idle", devices |-> <<>>, tid |-> 0, handle |-> {}]
    /\ starts = 0
    /\ \E nodes \in SUBSET NodePaths :
          /\ Cardinality(nodes) <= MaxNodes
          /\ \E st \in [nodes -> {"ok", "denied"}] :
                dev = [d \in AllCandidates |->
                          IF d \in nodes THEN st[d] ELSE "gone"]
    /\ cfg = [host |-> {}, rich |-> FALSE]
    /\ log = [d \in Paths |-> <<>>]
    /\ hist = [d \in Paths |-> NoHist]
    /\ current_quantity = 0
    /\ recent_scans = <<>>
    /\ hb = [t \in Tids |-> NoCall]
    /\ scanner_devices = NoView
    /\ current_mode = "add"
    /\ grocy_calls = <<>>

NextDiscovery ==
    \/ FindBegin
    \/ ProbeMissing
    \/ ProbeOpen
    \/ ProbeFail
    \/ ProbeAppend
    \/ HidrawLoopEnd
    \/ EventLoopEnd

SpecDiscovery == InitDiscovery /\ [][NextDiscovery]_vars

(***************************************************************************)
(* The callback the application wires to the handler (main.py:                *)
(* scanner = ScannerHandler(None, handle_barcode)): handle_barcode, run by    *)
(* the Reader that completed the barcode, for quantity barcodes.              *)
(***************************************************************************)
\* config.barcode_quantity_prefix: 'BBUDDY-Q-'
barcode_quantity_prefix == <<"B", "B", "U", "D", "D", "Y", "-", "Q", "-">>
\* the HID usage codes a scanner sends for a barcode BBUDDY-Q-<key> and Enter
QuantityCodes(key) == <<5, 5, 24, 7, 7, 28, 45, 20, 45, key, HidEnter>>
\* the last keys of the quantity barcodes scanned: "1", "2", and "A", which
\* is no number
QuantityKeys == {30, 31, 4}

\* barcode.startswith(prefix)
StartsWith(barcode, prefix) ==
    /\ Len(barcode) >= Len(prefix)
    /\ SubSeq(barcode, 1, Len(prefix)) = prefix
\* barcode[len(prefix):]
Suffix(barcode, prefix) == SubSeq(barcode, Len(prefix) + 1, Len(barcode))
\* float(quantity_str) for the strings scanned here: the value of one
\* decimal digit, or ValueError
IsNumber(quantity_str) ==
    /\ Len(quantity_str) = 1
    /\ \E n \in 0..9 : DigitStr(n) = quantity_str[1]
FloatOf(quantity_str) == CHOOSE n \in 0..9 : DigitStr(n) = quantity_str[1]

\* a Reader in self.callback(barcode) whose handle_barcode has not returned
InCall(t) ==
    hb[t].pc \in {"begin", "load", "store", "insert", "amount", "book",
                  "reset"}

\* The reports of one quantity barcode, read one after the other by Reader
\* t up to the report with Enter: self.callback(barcode) is invoked.
ScanQuantity(t, key) ==
    /\ th[t].kind = "reader" /\ th[t].pc = "inner"
    /\ running
    /\ dev[th[t].dev] = "ok"
    /\ IsHidraw(th[t].dev)
    /\ Len(log[th[t].dev]) < MaxCoreScans
    /\ HandleFrom(t, barcode_buffers[th[t].dev], QuantityCodes(key),
                  log[th[t].dev])
    /\ hb' = [hb EXCEPT ![t] =
                [NoCall EXCEPT !.pc = "begin",
                               !.barcode = HandleKeys(th[t].dev,
                                              barcode_buffers[th[t].dev],
                                              QuantityCodes(key)).buf]]
    /\ UNCHANGED <<running, threads, active_devices, main, starts, dev, cfg,
                   current_quantity, recent_scans, scanner_devices,
                   current_mode, grocy_calls>>

\* handle_barcode up to the read of current_quantity: scan_result, the
\* prefix test, quantity_to_add = float(quantity_str); on ValueError the
\* status is 'error'
HbBegin(t) ==
    /\ hb[t].pc = "begin"
    /\ StartsWith(hb[t].barcode, barcode_quantity_prefix)
    /\ LET quantity_str == Suffix(hb[t].barcode, barcode_quantity_prefix)
       IN  hb' = [hb EXCEPT ![t] =
                IF IsNumber(quantity_str)
                THEN [@ EXCEPT !.pc = "load",
                               !.quantity_to_add = FloatOf(quantity_str)]
                ELSE [@ EXCEPT !.pc = "insert", !.status = "error"]]
    /\ UNCHANGED <<running, threads, active_devices, barcode_buffers, th, main,
                   starts, dev, cfg, log, hist, current_quantity,
                   recent_scans, scanner_devices,
                   current_mode, grocy_calls>>

\* current_quantity += quantity_to_add: the read of the global
HbLoad(t) ==
    /\ hb[t].pc = "load"
    /\ hb' = [hb EXCEPT ![t].pc = "store", ![t].loaded = current_quantity]
    /\ UNCHANGED <<running, threads, active_devices, barcode_buffers, th, main,
                   starts, dev, cfg, log, hist, current_quantity,
                   recent_scans, scanner_devices,
                   current_mode, grocy_calls>>

\* current_quantity += quantity_to_add: the addition and the write of the
\* global; scan_result['status'] = 'quantity'
HbStore(t) ==
    /\ hb[t].pc = "store"
    /\ current_quantity' = hb[t].loaded + hb[t].quantity_to_add
    /\ hb' = [hb EXCEPT ![t].pc = "insert", ![t].status = "quantity"]
    /\ UNCHANGED <<running, threads, active_devices, barcode_buffers, th, main,
                   starts, dev, cfg, log, hist, recent_scans,
                   scanner_devices,
                   current_mode, grocy_calls>>

\* recent_scans.insert(0, scan_result); if len(recent_scans) > 50:
\* recent_scans.pop(); return
HbInsert(t) ==
    /\ hb[t].pc = "insert"
    /\ LET scan_result == [barcode |-> hb[t].barcode, status |-> hb[t].status]
           inserted == <<scan_result>> \o recent_scans
       IN  recent_scans' = IF Len(inserted) > MaxRecent
                           THEN SubSeq(inserted, 1, Len(inserted) - 1)
                           ELSE inserted
    /\ hb' = [hb EXCEPT ![t].pc = "done"]
    /\ UNCHANGED <<running, threads, active_devices, barcode_buffers, th, main,
                   starts, dev, cfg, log, hist, current_quantity,
                   scanner_devices,
                   current_mode, grocy_calls>>

(***************************************************************************)
(* handle_barcode for mode-switch and product barcodes, with Grocy         *)
(* configured (grocy_client is set).  What Grocy and the product databases *)
(* answer is the environment's choice.                                     *)
(***************************************************************************)
\* config.barcode_add, config.barcode_consume (config.py: the defaults)
barcode_add == <<"B", "B", "U", "D", "D", "Y", "-", "A", "D", "D">>
barcode_consume ==
    <<"B", "B", "U", "D", "D", "Y", "-", "C", "O", "N", "S", "U", "M", "E">>

\* the HID usage codes a scanner sends for the product barcode "1", for the
\* two mode barcodes and for the quantity barcode BBUDDY-Q-2, with Enter
ProductCodes == <<30, HidEnter>>
AddCodes == <<5, 5, 24, 7, 7, 28, 45, 4, 7, 7, HidEnter>>
ConsumeCodes ==
    <<5, 5, 24, 7, 7, 28, 45, 6, 18, 17, 22, 24, 16, 8, HidEnter>>
ScanCodes == {ProductCodes, AddCodes, ConsumeCodes, QuantityCodes(31)}

\* The reports of one barcode, read one after the other by Reader t up to
\* the report with Enter: self.callback(barcode) is invoked.  A scanner
\* scans at most cap barcodes.
ScanBarcode(t, codes, cap) ==
    /\ th[t].kind = "reader" /\ th[t].pc = "inner"
    /\ running
    /\ dev[th[t].dev] = "ok"
    /\ IsHidraw(th[t].dev)
    /\ Len(log[th[t].dev]) < cap
    /\ HandleFrom(t, barcode_buffers[th[t].dev], codes, log[th[t].dev])
    /\ hb' = [hb EXCEPT ![t] =
                [NoCall EXCEPT !.pc = "begin",
                               !.barcode = HandleKeys(th[t].dev,
                                              barcode_buffers[th[t].dev],
                                              codes).buf]]
    /\ UNCHANGED <<running, threads, active_devices, main, starts, dev, cfg,
                   current_quantity, recent_scans, scanner_devices,
                   current_mode, grocy_calls>>

\* if barcode == config.barcode_add: current_mode = 'add' ... elif barcode
\* == config.barcode_consume: current_mode = 'consume'; status 'mode'
HbMode(t) ==
    /\ hb[t].pc = "begin"
    /\ hb[t].barcode \in {barcode_add, barcode_consume}
    /\ current_mode' = IF hb[t].barcode = barcode_add THEN "add" ELSE "consume"
    /\ hb' = [hb EXCEPT ![t].pc = "insert", ![t].status = "mode"]
    /\ UNCHANGED <<running, threads, active_devices, barcode_buffers, th, main,
                   starts, dev, cfg, log, hist, current_quantity,
                   recent_scans, scanner_devices, grocy_calls>>

\* what the look-ups for a product barcode end in: the product is in Grocy
\* with its data; Grocy's answer has no product id; the product info cannot
\* be read; the product is in an external database and is created in Grocy
\* with its barcode; created but the barcode cannot be added; the creation
\* fails; the barcode is in no database
Lookups ==
    {"found", "invalid", "no_info", "created", "barcode_failed",
     "create_failed", "not_found"}

\* if grocy_client: product = grocy_client.find_product_by_barcode(barcode)
\* and what follows up to the read of current_quantity or to the status of
\* a look-up that failed
HbFind(t, lookup) ==
    /\ hb[t].pc = "begin"
    /\ hb[t].barcode \notin {barcode_add, barcode_consume}
    /\ ~StartsWith(hb[t].barcode, barcode_quantity_prefix)
    /\ hb' = [hb EXCEPT ![t] =
                CASE lookup = "found" ->
                        [@ EXCEPT !.pc = "amount", !.via = "grocy"]
                  [] lookup = "created" ->
                        [@ EXCEPT !.pc = "amount", !.via = "external"]
                  [] lookup \in {"invalid", "no_info", "create_failed"} ->
                        [@ EXCEPT !.pc = "insert", !.status = "error"]
                  [] lookup = "barcode_failed" ->
                        [@ EXCEPT !.pc = "insert", !.status = "warning"]
                  [] OTHER ->
                        [@ EXCEPT !.pc = "insert", !.status = "not_found"]]
    /\ UNCHANGED <<running, threads, active_devices, barcode_buffers, th, main,
                   starts, dev, cfg, log, hist, current_quantity,
                   recent_scans, scanner_devices, current_mode, grocy_calls>>

\* amount = current_quantity if current_quantity > 0 else 1.0
HbAmount(t) ==
    /\ hb[t].pc = "amount"
    /\ hb' = [hb EXCEPT ![t].pc = "book",
                        ![t].amount = IF current_quantity > 0
                                      THEN current_quantity ELSE 1]
    /\ UNCHANGED <<running, threads, active_devices, barcode_buffers, th, main,
                   starts, dev, cfg, log, hist, current_quantity,
                   recent_scans, scanner_devices, current_mode, grocy_calls>>

\* if current_mode == 'add': success = grocy_client.add_product(product_id,
\* amount) else: success = grocy_client.consume_product(product_id, amount);
\* without success the status is 'error', or 'warning' for a new product
HbBook(t, success) ==
    /\ hb[t].pc = "book"
    /\ grocy_calls' = Append(grocy_calls,
                             [op |-> current_mode, amount |-> hb[t].amount,
                              by |-> t, success |-> success])
    /\ hb' = [hb EXCEPT ![t] =
                IF success THEN [@ EXCEPT !.pc = "reset"]
                ELSE [@ EXCEPT !.pc = "insert",
                               !.status = IF hb[t].via = "grocy" THEN "error"
                                          ELSE "warning"]]
    /\ UNCHANGED <<running, threads, active_devices, barcode_buffers, th, main,
                   starts, dev, cfg, log, hist, current_quantity,
                   recent_scans, scanner_devices, current_mode>>

\* if success: scan_result['status'] = 'success'; current_quantity = 0.0
HbReset(t) ==
    /\ hb[t].pc = "reset"
    /\ current_quantity' = 0
    /\ hb' = [hb EXCEPT ![t].pc = "insert", ![t].status = "success"]
    /\ UNCHANGED <<running, threads, active_devices, barcode_buffers, th, main,
                   starts, dev, cfg, log, hist, recent_scans,
                   scanner_devices, current_mode, grocy_calls>>

\* handle_barcode, run by Reader t inside self.callback(barcode)
HandleBarcodeStep(t) ==
    \/ HbMode(t)
    \/ HbBegin(t)
    \/ HbLoad(t)
    \/ HbStore(t)
    \/ \E lookup \in Lookups : HbFind(t, lookup)
    \/ HbAmount(t)
    \/ \E success \in BOOLEAN : HbBook(t, success)
    \/ HbReset(t)
    \/ HbInsert(t)

(***************************************************************************)
(* Scanners of the decoder model: each sends one key code, any of          *)
(* 0..MaxCode, and Enter: HID reports with one key slot in use, key-down   *)
(* events, and the records of other types or values that come with them    *)
(* (EV_SYN = 0, EV_MSC = 4; key-up = 0, repeat = 2).                       *)
(***************************************************************************)
AllCodes == 0..MaxCode
DecodeCodes(device) ==
    {cfg.code, IF IsHidraw(device) THEN HidEnter ELSE InputEnter}
KeyDown(code) == [type |-> 1, code |-> code, value |-> 1]
\* the records the key-down filter does not let through, for Enter and "A"
FilteredEvents ==
    [type : {0, 1, 4}, code : {InputEnter, 30}, value : {0, 1, 2}]
        \ {KeyDown(InputEnter), KeyDown(30)}
DecodeFrames(device) ==
    IF IsHidraw(device)
    THEN {<<0, 0, key_code>> \o [i \in 1..(HidFrameSize - 3) |-> 0] :
             key_code \in DecodeCodes(device)}
    ELSE {KeyDown(code) : code \in DecodeCodes(device)} \cup FilteredEvents

\* data = f.read(size) returns one of these frames
ReadRecord(t, frame) ==
    /\ th[t].kind = "reader" /\ th[t].pc = "inner"
    /\ Fed(th[t].dev) + NumMapped(th[t].dev, FrameKeys(th[t].dev, frame))
          <= MaxFedDecode
    /\ ReadFrame(t, frame)

(***************************************************************************)
(* A scanner whose reports use the first MaxSlots key slots, each holding  *)
(* "A", "1" or Enter.                                                      *)
(***************************************************************************)
SlotReports ==
    {<<0, 0>> \o ks \o [i \in 1..(HidFrameSize - 2 - MaxSlots) |-> 0] :
        ks \in [1..MaxSlots -> {4, 30, HidEnter}]}

\* data = f.read(8) returns one of these reports
ReadReport(t, report) ==
    /\ th[t].kind = "reader" /\ th[t].pc = "inner"
    /\ Fed(th[t].dev) + NumMapped(th[t].dev, FrameKeys(th[t].dev, report))
          <= MaxFedSlots
    /\ ReadFrame(t, report)

(***************************************************************************)
(* A caller that reads the attribute active_devices (main.py: status() and *)
(* index()).  __init__ creates the list once and the handler changes it in *)
(* place (append, remove); the attribute is the list itself.               *)
(***************************************************************************)
\* 'scanner_devices': scanner.active_devices: the caller holds a reference
\* to the handler's list; at is what the list held at that moment
StatusGet ==
    /\ scanner_devices' = [ref |-> "self.active_devices",
                           at |-> active_devices]
    /\ UNCHANGED <<running, threads, active_devices, barcode_buffers, th, main,
                   starts, dev, cfg, log, hist, current_quantity, recent_scans,
                   hb, current_mode, grocy_calls>>

\* the value of what the caller holds, read now
Obtained ==
    IF scanner_devices.ref = "self.active_devices" THEN active_devices
    ELSE scanner_devices.at

(***************************************************************************)
(* Specifications.                                                         *)
(***************************************************************************)
ReaderStep ==
    \E t \in Tids :
        \/ ListenDeviceInit(t)
        \/ OuterExit(t)
        \/ OpenOk(t)
        \/ OpenDenied(t)
        \/ OpenError(t)
        \/ InnerExit(t)
        \/ \E frame \in Frames(th[t].dev) : ReadFrame(t, frame)
        \/ ShortRead(t)
        \/ ReadError(t)
        \/ CallbackReturn(t)
        \/ ReaderExit(t)

MonitorStep ==
    \E t \in Tids :
        \/ MonitorTop(t)
        \/ MonitorScan(t)
        \/ MonitorVisit(t)
        \/ MonitorAppend(t)

HostStep == \E d \in Paths, s \in {"ok", "denied", "gone"} : DeviceChange(d, s)

\* The handler as the application drives it (main.py: one start() when the
\* module loads), and stopped at most once afterwards.
Next ==
    \/ starts = 0 /\ StartCall
    \/ StartSpawn
    \/ StartAppend
    \/ running /\ StopCall
    \/ ReaderStep
    \/ MonitorStep
    \/ HostStep

\* hosts with one device node, its scanner sending one character and Enter
Init == \E host \in {{H0}, {E0}} : InitHandler(host, FALSE)
Spec == Init /\ [][Next]_vars

\* The same handler on a stable host: the devices found by start() stay
\* accessible and every read returns a whole frame.
NextReader ==
    \/ starts = 0 /\ StartCall
    \/ StartSpawn
    \/ StartAppend
    \/ \E t \in Tids :
        \/ ListenDeviceInit(t)
        \/ OpenOk(t)
        \/ \E frame \in Frames(th[t].dev) : ReadFrame(t, frame)
        \/ CallbackReturn(t)

\* one scanner with the larger key set, or two scanners with the small ones
InitReader ==
    \E c \in {<<{H0}, TRUE>>, <<{E0}, TRUE>>, <<{H0, H1}, FALSE>>} :
        /\ InitHandler(c[1], c[2])
        /\ \A d \in c[1] : dev[d] = "ok"
SpecReader == InitReader /\ [][NextReader]_vars

\* The class under an arbitrary caller: start() and stop() in any order, up
\* to MaxStarts calls of start().
NextApi ==
    \/ starts < MaxStarts /\ StartCall
    \/ StartSpawn
    \/ StartAppend
    \/ StopCall
    \/ ReaderStep
    \/ MonitorStep
    \/ HostStep

InitApi == InitHandler({H0}, FALSE)
SpecApi == InitApi /\ [][NextApi]_vars

\* The handler of Spec with a callback that may raise.
NextFault ==
    \/ Next
    \/ \E t \in Tids : CallbackRaise(t)

SpecFault == Init /\ [][NextFault]_vars

\* The handler under a caller that calls stop() at any time outside start(),
\* also before start() and several times, on a host where a scanner that is
\* plugged in stays.
NextStop ==
    \/ starts = 0 /\ StartCall
    \/ StartSpawn
    \/ StartAppend
    \/ StopBegin
    \/ StopJoined
    \/ \E t \in Tids :
        \/ ListenDeviceInit(t)
        \/ OuterExit(t)
        \/ OpenOk(t)
        \/ InnerExit(t)
        \/ th[t].pc = "inner"
              /\ \E frame \in Frames(th[t].dev) : ReadFrame(t, frame)
        \/ CallbackReturn(t)
        \/ ReaderExit(t)
    \/ MonitorStep
    \/ \E d \in Paths : DeviceChange(d, "ok")

SpecStop == Init /\ [][NextStop]_vars

\* Two scanners, one on a faulty device: /dev/hidraw0 fails in every way
\* (its node changes, its reads come short or fail, the callback raises on
\* its barcodes) next to /dev/hidraw1, which is plugged in and stays, and
\* whose scanner is in the middle of a barcode (no frame completes one).
Faulty(t) == th[t].kind = "reader" /\ th[t].dev = H0
Unfinished(device, frame) ==
    ~HandleKeys(device, barcode_buffers[device], FrameKeys(device, frame)).call
NextIso ==
    \/ starts = 0 /\ StartCall
    \/ StartSpawn
    \/ StartAppend
    \/ \E t \in Tids :
        \/ ListenDeviceInit(t)
        \/ OpenOk(t)
        \/ Faulty(t) /\ OpenDenied(t)
        \/ Faulty(t) /\ OpenError(t)
        \/ /\ th[t].pc = "inner"
           /\ \E frame \in Frames(th[t].dev) :
                 /\ Fed(th[t].dev)
                      + NumMapped(th[t].dev, FrameKeys(th[t].dev, frame))
                        <= MaxFedIso
                 /\ Faulty(t) \/ Unfinished(th[t].dev, frame)
                 /\ ReadFrame(t, frame)
        \/ Faulty(t) /\ ShortRead(t)
        \/ Faulty(t) /\ ReadError(t)
        \/ CallbackReturn(t)
        \/ Faulty(t) /\ CallbackRaise(t)
        \/ ReaderExit(t)
    \/ MonitorStep
    \/ \E s \in {"ok", "denied", "gone"} : DeviceChange(H0, s)
    \/ DeviceChange(H1, "ok")

InitIso == InitHandler({H0, H1}, FALSE)
SpecIso == InitIso /\ [][NextIso]_vars

\* The handler of Spec with threads that are scheduled: a thread that can
\* take a step takes one (time.sleep returns, a pending read returns, the
\* caller gets through start()'s loop).
Fairness ==
    /\ WF_vars(StartSpawn)
    /\ WF_vars(StartAppend)
    /\ \A t \in Tids :
          /\ WF_vars(MonitorTop(t) \/ MonitorScan(t) \/ MonitorVisit(t)
                     \/ MonitorAppend(t))
          /\ WF_vars(ListenDeviceInit(t) \/ OuterExit(t) \/ OpenOk(t)
                     \/ OpenDenied(t) \/ OpenError(t) \/ InnerExit(t)
                     \/ (\E frame \in Frames(th[t].dev) : ReadFrame(t, frame))
                     \/ ShortRead(t) \/ ReadError(t) \/ CallbackReturn(t)
                     \/ ReaderExit(t))
SpecLive == Init /\ [][Next]_vars /\ Fairness

\* Two scanners on a stable host, each scanning quantity barcodes, with
\* the callback of main.py: handle_barcode runs in the Reader's thread and
\* the Reader goes on when it has returned.
NextCore ==
    \/ starts = 0 /\ StartCall
    \/ StartSpawn
    \/ StartAppend
    \/ \E t \in Tids :
        \/ ListenDeviceInit(t)
        \/ OpenOk(t)
        \/ \E key \in QuantityKeys : ScanQuantity(t, key)
        \/ HbBegin(t)
        \/ HbLoad(t)
        \/ HbStore(t)
        \/ HbInsert(t)
        \/ hb[t].pc = "done" /\ CallbackReturn(t)

InitCore == InitHandler({H0, H1}, FALSE) /\ \A d \in {H0, H1} : dev[d] = "ok"
SpecCore == InitCore /\ [][NextCore]_vars

\* One scanner on a stable host, sending one key code and Enter.
NextDecode ==
    \/ starts = 0 /\ StartCall
    \/ StartSpawn
    \/ StartAppend
    \/ \E t \in Tids :
        \/ ListenDeviceInit(t)
        \/ OpenOk(t)
        \/ /\ th[t].pc = "inner"
           /\ \E frame \in DecodeFrames(th[t].dev) : ReadRecord(t, frame)
        \/ CallbackReturn(t)

InitDecode ==
    /\ running = FALSE
    /\ threads = <<>>
    /\ active_devices = <<>>
    /\ barcode_buffers = [d \in {} |-> <<>>]
    /\ th = [t \in Tids |-> NoThread]
    /\ main = IdleMain
    /\ starts = 0
    /\ \E d \in {H0, E0}, code \in AllCodes :
          /\ dev = [p \in Paths |-> IF p = d THEN "ok" ELSE "gone"]
          /\ cfg = [host |-> {d}, rich |-> FALSE, code |-> code]
    /\ log = [d \in Paths |-> <<>>]
    /\ hist = [d \in Paths |-> NoHist]
    /\ current_quantity = 0
    /\ recent_scans = <<>>
    /\ hb = [t \in Tids |-> NoCall]
    /\ scanner_devices = NoView
    /\ current_mode = "add"
    /\ grocy_calls = <<>>
SpecDecode == InitDecode /\ [][NextDecode]_vars

\* One hidraw scanner on a stable host, sending reports with several keys.
NextSlots ==
    \/ starts = 0 /\ StartCall
    \/ StartSpawn
    \/ StartAppend
    \/ \E t \in Tids :
        \/ ListenDeviceInit(t)
        \/ OpenOk(t)
        \/ /\ th[t].pc = "inner"
           /\ \E report \in SlotReports : ReadReport(t, report)
        \/ CallbackReturn(t)

InitSlots == InitHandler({H0}, TRUE) /\ dev[H0] = "ok"
SpecSlots == InitSlots /\ [][NextSlots]_vars

\* One start() that finds the scanner, and one stop(), with the loops of
\* the Reader taken step by step.
NextCancel ==
    \/ starts = 0 /\ StartCall
    \/ StartSpawn
    \/ StartAppend
    \/ running /\ StopCall
    \/ \E t \in Tids :
        \/ ListenDeviceInit(t)
        \/ OuterTest(t)
        \/ OpenPending(t)
        \/ InnerTest(t)
        \/ /\ th[t].pc = "read"
           /\ \E frame \in Frames(th[t].dev) : ReadPending(t, frame)
        \/ ShortReadPending(t)
        \/ CallbackReturn(t)
        \/ ReaderExit(t)

InitCancel ==
    \E host \in {{H0}, {E0}} :
       InitHandler(host, FALSE) /\ \A d \in host : dev[d] = "ok"
SpecCancel == InitCancel /\ [][NextCancel]_vars

\* Two scanners whose Readers run handle_barcode for mode, quantity and
\* product barcodes, one barcode each.
NextBook ==
    \/ starts = 0 /\ StartCall
    \/ StartSpawn
    \/ StartAppend
    \/ \E t \in Tids :
        \/ ListenDeviceInit(t)
        \/ OpenOk(t)
        \/ \E codes \in ScanCodes : ScanBarcode(t, codes, MaxCoreScans)
        \/ HandleBarcodeStep(t)
        \/ hb[t].pc = "done" /\ CallbackReturn(t)

SpecBook == InitCore /\ [][NextBook]_vars

\* One scanner, whose Reader runs handle_barcode for one barcode after the
\* other.
NextBookOne ==
    \/ starts = 0 /\ StartCall
    \/ StartSpawn
    \/ StartAppend
    \/ \E t \in Tids :
        \/ ListenDeviceInit(t)
        \/ OpenOk(t)
        \/ \E codes \in ScanCodes : ScanBarcode(t, codes, MaxBookScans)
        \/ HandleBarcodeStep(t)
        \/ hb[t].pc = "done" /\ CallbackReturn(t)

InitBookOne == InitHandler({H0}, FALSE) /\ dev[H0] = "ok"
SpecBookOne == InitBookOne /\ [][NextBookOne]_vars

\* The handler of Spec next to a caller that reads active_devices once.
NextStatus ==
    \/ Next
    \/ scanner_devices = NoView /\ StatusGet

SpecStatus == Init /\ [][NextStatus]_vars

(***************************************************************************)
(* Properties.                                                             *)
(***************************************************************************)
Buffer(d) == IF d \in DOMAIN barcode_buffers THEN barcode_buffers[d] ELSE <<>>
RECURSIVE Barcodes(_)
Barcodes(entries) ==
    IF entries = <<>> THEN <<>>
    ELSE Head(entries).barcode \o Barcodes(Tail(entries))
\* a callback invocation for d that has not ended
InCallback(d) == \E i \in 1..Len(log[d]) : ~log[d][i].returned
\* the characters the scanner of d can send
OwnChars(d) == {CharOf(d, c) : c \in {x \in Codes(d) : Mapped(d, x)}}

\* C1: every run of mapped codes closed by Enter is delivered by exactly one
\* callback invocation (as many invocations as closed runs), whose argument
\* is the run's characters, decoded by the device's table, in input order.
C1_RunDeliveredOnce ==
    \A d \in Paths :
        /\ Len(log[d]) = hist[d].scans
        /\ \A i \in 1..Len(log[d]) :
              /\ log[d][i].codes # <<>>
              /\ log[d][i].barcode = Decoded(d, log[d][i].codes)

\* HID 4, 30, 40 on an empty buffer delivers "A1"
C1_Witness ==
    /\ Len(log[H0]) = 1
    /\ log[H0][1].codes = <<4, 30>>
    /\ log[H0][1].barcode = <<"A", "1">>
    /\ hist[H0].sent = <<4, 30>>

\* C2: as long as no HID report of a device carried usage code 40, the
\* callback has not been invoked for that device.
C2_NoEnterNoCallback ==
    \A d \in Paths :
        (IsHidraw(d) /\ ~hist[d].entered) => log[d] = <<>>

\* all the characters of the bound were sent, without Enter
C2_Witness ==
    /\ ~hist[H0].entered
    /\ Len(hist[H0].sent) = MaxFed
    /\ Buffer(H0) = Decoded(H0, hist[H0].sent)
    /\ log[H0] = <<>>

\* C3: the barcodes delivered for a device, in order, followed by what is
\* pending in its buffer, spell the characters its scanner sent, each once:
\* no delivered character is delivered again and no two scans are joined.
C3_ScansNotJoined ==
    \A d \in Paths :
        Barcodes(log[d]) \o (IF InCallback(d) THEN <<>> ELSE Buffer(d))
            = Decoded(d, hist[d].sent)

\* two complete scans, "A1" and then "1A", gave two invocations
C3_Witness ==
    /\ Len(log[H0]) = 2
    /\ log[H0][1].barcode = <<"A", "1">> /\ log[H0][1].returned
    /\ log[H0][2].barcode = <<"1", "A">> /\ log[H0][2].returned
    /\ hist[H0].scans = 2
    /\ Buffer(H0) = <<>>

\* C4: a frame of nothing but Enter keys read while the buffer is empty
\* invokes no callback and leaves the buffer empty, whatever was read
\* before; and no callback argument is the empty string.
C4_EnterOnEmpty ==
    [][/\ \A d \in Paths : \A i \in 1..Len(log[d]) : log[d][i].barcode # <<>>
       /\ \A t \in Tids : \A frame \in Frames(th[t].dev) :
             (/\ ReadFrame(t, frame)
              /\ Buffer(th[t].dev) = <<>>
              /\ FrameKeys(th[t].dev, frame) # <<>>
              /\ \A i \in 1..Len(FrameKeys(th[t].dev, frame)) :
                    IsEnter(th[t].dev, FrameKeys(th[t].dev, frame)[i])
                    \/ FrameKeys(th[t].dev, frame)[i] = 0)
             => /\ barcode_buffers'[th[t].dev] = <<>>
                /\ log' = log]_vars

\* Enter was sent to a buffer that never held a character
C4_Witness ==
    /\ hist[E0].entered
    /\ hist[E0].sent = <<>>
    /\ E0 \in DOMAIN barcode_buffers /\ barcode_buffers[E0] = <<>>
    /\ log[E0] = <<>>

\* C5: a callback argument is the buffer as it stands during the call, holds
\* no "\n" and only characters of the device's decoder table.
C5_ArgumentIsBuffer ==
    \A d \in Paths : \A i \in 1..Len(log[d]) :
        /\ \A k \in 1..Len(log[d][i].barcode) :
              /\ log[d][i].barcode[k] # "\n"
              /\ log[d][i].barcode[k] \in OwnChars(d)
        /\ ~log[d][i].returned => log[d][i].barcode = Buffer(d)

\* a callback is running with the two-character buffer as its argument
C5_Witness ==
    /\ Len(log[E0]) = 1
    /\ ~log[E0][1].returned
    /\ log[E0][1].barcode = <<"A", "1">>
    /\ Buffer(E0) = <<"A", "1">>

C7_ListedHasLiveReader ==
    \A d \in Paths : InList(d, active_devices) => ReadersOf(d) # {}

\* C8 (as stated): at most one Reader is alive for a device path and no path
\* is twice in active_devices.
C8_OneReaderPerPath ==
    /\ \A d \in Paths : Cardinality(ReadersOf(d)) <= 1
    /\ \A i, j \in 1..Len(active_devices) :
          active_devices[i] = active_devices[j] => i = j

\* C9: the i-th invocation for a device is the one for the i-th Enter that
\* closed a run, and it has returned before the next one is made.
C9_InOrder ==
    \A d \in Paths : \A i \in 1..Len(log[d]) :
        /\ log[d][i].n = i
        /\ i < Len(log[d]) => log[d][i].returned

\* two runs were closed: the second invocation is made after the first
\* returned
C9_Witness ==
    /\ Len(log[H0]) = 2
    /\ log[H0][1].n = 1 /\ log[H0][1].returned
    /\ log[H0][2].n = 2 /\ ~log[H0][2].returned

\* C10: with Readers on two devices, each device's buffer and barcodes hold
\* only characters of its own scanner, each invocation is made by a Reader
\* of that device, and each device has as many invocations as closed runs.
C10_NoCrossTalk ==
    \A d \in Paths :
        /\ \A k \in 1..Len(Buffer(d)) : Buffer(d)[k] \in OwnChars(d)
        /\ \A i \in 1..Len(log[d]) :
              /\ \A k \in 1..Len(log[d][i].barcode) :
                    log[d][i].barcode[k] \in OwnChars(d)
              /\ th[log[d][i].by].dev = d
        /\ Len(log[d]) = hist[d].scans

\* both scanners' barcodes were delivered: two invocations, one each
C10_Witness ==
    /\ cfg.host = {H0, H1}
    /\ Len(log[H0]) = 1 /\ log[H0][1].barcode = <<"A">> /\ log[H0][1].returned
    /\ Len(log[H1]) = 1 /\ log[H1][1].barcode = <<"B">> /\ log[H1][1].returned
    /\ hist[H0].scans = 1 /\ hist[H1].scans = 1

\* C11 (as stated): once a callback invocation for a device has raised, the
\* device's state is still sound: there is at most one invocation per
\* completed barcode, every argument is the characters of its own run only,
\* and outside a callback the buffer holds only the characters sent since
\* the last Enter (so not those of the barcode whose delivery raised).
C11_RaiseKeepsState ==
    \A d \in Paths :
        (\E i \in 1..Len(log[d]) : log[d][i].raised) =>
            /\ Len(log[d]) <= hist[d].scans
            /\ \A j \in 1..Len(log[d]) :
                  log[d][j].barcode = Decoded(d, log[d][j].codes)
            /\ ~InCallback(d) => Buffer(d) = Decoded(d, hist[d].run)

\* the monitor threads started so far
Monitors == {t \in Tids : th[t].kind = "monitor"}

\* C12: a start() whose discovery returns no device returns (the caller is
\* outside start() again) with the handler running, active_devices empty,
\* no Reader started, and exactly one more monitor thread, which is the one
\* thread appended to threads.
C12_StartWithoutDevices ==
    [][(StartCall /\ FindAllDevices(dev) = <<>>) =>
          /\ main' = IdleMain
          /\ running'
          /\ active_devices' = <<>>
          /\ Cardinality(Monitors') = Cardinality(Monitors) + 1
          /\ \A t \in Tids : th'[t].kind = "reader" => th[t].kind = "reader"
          /\ Len(threads') = Len(threads) + 1
          /\ th'[threads'[Len(threads')]].kind = "monitor"
          /\ th[threads'[Len(threads')]].kind = "none"]_vars

\* start() has returned on a host without an accessible device: one monitor
\* thread, at the top of its loop, and nothing listed
C12_Witness ==
    /\ starts = 1 /\ main = IdleMain /\ running
    /\ active_devices = <<>>
    /\ threads = <<1>>
    /\ th[1].kind = "monitor" /\ th[1].pc = "top"
    /\ \A t \in Tids \ {1} : th[t].kind = "none"

\* C13 (as stated): with a monitor started, from any moment on from which
\* the handler keeps running and a device stays accessible (and a thread can
\* still be started), the device eventually is in active_devices with a live
\* Reader.
C13_PluggedDeviceGetsReader ==
    \A d \in Paths :
        []([](Monitors # {} /\ running /\ dev[d] = "ok" /\ CanSpawn)
              => <>(InList(d, active_devices) /\ ReadersOf(d) # {}))

\* every Reader started for a device has finished, and there was one
Ended(d) ==
    /\ \E t \in Tids : th[t].kind = "reader" /\ th[t].dev = d
    /\ ReadersOf(d) = {}

\* C14 (as stated): from any moment on at which the Reader of a device has
\* finished and from which the handler keeps running and the device stays
\* accessible (and a thread can still be started), the device eventually is
\* in active_devices with a live Reader again, whether or not the startup
\* discovery found a device.
C14_EndedReaderReplaced ==
    \A d \in Paths :
        []((Ended(d) /\ [](running /\ dev[d] = "ok" /\ CanSpawn))
              => <>(InList(d, active_devices) /\ ReadersOf(d) # {}))

\* C15: a step in which the Reader of a device meets an open failure, a
\* short read, a read error or a callback exception, or ends after one,
\* changes no other thread (no other Reader, no monitor), leaves the running
\* flag alone, and for every other device leaves its buffer, its callback
\* invocations and its membership of active_devices as they were; and no
\* monitor has stopped while the handler runs.
C15_ErrorsStayLocal ==
    [][/\ \A t \in Tids :
             (\/ OpenDenied(t) \/ OpenError(t) \/ ShortRead(t) \/ ReadError(t)
              \/ CallbackRaise(t) \/ ReaderExit(t)) =>
                /\ running' = running
                /\ \A u \in Tids \ {t} : th'[u] = th[u]
                /\ \A b \in Paths \ {th[t].dev} :
                      /\ Buffer(b)' = Buffer(b)
                      /\ log'[b] = log[b]
                      /\ InList(b, active_devices')
                            <=> InList(b, active_devices)
       /\ \A m \in Monitors : running => th[m].pc # "done"]_vars

\* the Reader of /dev/hidraw0 has ended after a callback exception and a
\* denied open, and took its device off the list; the Reader of
\* /dev/hidraw1 reads on with its buffer, listed, and the monitor runs
C15_Witness ==
    \E a, b, m \in Tids :
        /\ th[a].kind = "reader" /\ th[a].dev = H0 /\ th[a].pc = "done"
        /\ \E i \in 1..Len(log[H0]) : log[H0][i].raised
        /\ ~InList(H0, active_devices)
        /\ th[b].kind = "reader" /\ th[b].dev = H1 /\ th[b].pc = "inner"
        /\ Buffer(H1) # <<>>
        /\ InList(H1, active_devices)
        /\ th[m].kind = "monitor" /\ th[m].pc # "done"

\* the fields of the handler
Handler ==
    [running |-> running, threads |-> threads,
     active_devices |-> active_devices, barcode_buffers |-> barcode_buffers]

\* C16: stop() sets running to false and changes neither threads nor
\* active_devices nor any thread, also on a handler that was never started;
\* called on a handler that is not running (never started, or stopped
\* before) it leaves every field of the handler as it was, so that a second
\* stop() ends in the state the first one left.
C16_StopIdempotent ==
    [][/\ StopBegin =>
             /\ ~running'
             /\ threads' = threads /\ active_devices' = active_devices
             /\ th' = th
             /\ ~running => Handler' = Handler
       /\ StopJoined =>
             /\ Handler' = Handler /\ th' = th
             /\ main' = IdleMain]_vars

\* stop() is in its loop of joins on a handler that was never started
C16_Witness ==
    /\ starts = 0
    /\ main.pc = "join"
    /\ Handler = [running |-> FALSE, threads |-> <<>>,
                  active_devices |-> <<>>,
                  barcode_buffers |-> [d \in {} |-> <<>>]]

\* C17 (as stated): once stop() has cleared the flag of a started handler,
\* eventually every Reader and every monitor has ended and active_devices
\* is empty.
C17_StopEndsEverything ==
    (starts > 0 /\ ~running /\ main = IdleMain) ~>
        (/\ \A t \in Tids : th[t].kind # "none" => th[t].pc = "done"
         /\ active_devices = <<>>)

\* index of a candidate path in its range
IndexOf(d) ==
    CHOOSE i \in 0..(HidrawRange - 1) : d \in {HidrawPath(i), EventPath(i)}
\* the accessible candidates of each kind
OkHidraw == {d \in {AllHidraw[k] : k \in 1..HidrawRange} : dev[d] = "ok"}
OkEvent == {d \in {AllEvent[k] : k \in 1..EventRange} : dev[d] = "ok"}
Returned == main.pc = "returned"
Listed == {main.devices[j] : j \in 1..Len(main.devices)}

\* C18: the list a discovery returns holds exactly the accessible candidates
\* (the hidraw ones, or the input-event ones when no hidraw one is
\* accessible), each once, in ascending index order, whatever missing or
\* unopenable candidates lie between them; it is the list the function
\* FindAllDevices of the handler model computes.
C18_AccessibleInIndexOrder ==
    Returned =>
        /\ Listed = (IF OkHidraw # {} THEN OkHidraw ELSE OkEvent)
        /\ \A j, k \in 1..Len(main.devices) :
              j < k => IndexOf(main.devices[j]) < IndexOf(main.devices[k])
        /\ main.devices =
              (LET devices == Accessible(AllHidraw, dev)
               IN  IF devices = <<>> THEN Accessible(AllEvent, dev)
                   ELSE devices)

\* only /dev/hidraw3 and /dev/hidraw7 are accessible, with an unopenable
\* node between them
C18_Witness ==
    /\ Returned
    /\ OkHidraw = {"/dev/hidraw3", "/dev/hidraw7"}
    /\ dev["/dev/hidraw5"] = "denied"
    /\ main.devices = <<"/dev/hidraw3", "/dev/hidraw7">>

\* C19: an input-event candidate is probed only when no hidraw candidate is
\* accessible; the returned list is all hidraw paths or all input-event
\* paths, and holds no input-event path when a hidraw one is accessible.
C19_EventOnlyAsFallback ==
    /\ main.pc \in {"event", "eopen"} => OkHidraw = {}
    /\ Returned =>
          /\ \/ Listed \subseteq {AllHidraw[k] : k \in 1..HidrawRange}
             \/ Listed \subseteq {AllEvent[k] : k \in 1..EventRange}
          /\ OkHidraw # {} => Listed \cap OkEvent = {}

\* an accessible input-event device is left out next to a hidraw one
C19_Witness ==
    /\ Returned
    /\ OkHidraw # {} /\ OkEvent # {}
    /\ Listed = OkHidraw

\* C20: a discovery never ends by raising: until it has returned it has a
\* next step, whatever the candidates are; at most one probe handle is open
\* at a time and none is open when it returns.
C20_DiscoveryNeverFails ==
    /\ main.pc # "raised"
    /\ main.pc \notin {"idle", "returned"} => ENABLED NextDiscovery
    /\ Cardinality(main.handle) <= 1
    /\ Returned => main.handle = {}

\* a discovery returned from a host with an unopenable and a missing hidraw
\* node before an accessible one
C20_Witness ==
    /\ Returned
    /\ dev["/dev/hidraw0"] = "denied"
    /\ dev["/dev/hidraw1"] = "gone"
    /\ dev["/dev/hidraw2"] = "ok"
    /\ main.devices = <<"/dev/hidraw2">>
    /\ main.handle = {}

\* the amounts of the quantity barcodes handled, summed
RECURSIVE QuantitySum(_)
QuantitySum(scans) ==
    IF scans = <<>> THEN 0
    ELSE (IF Head(scans).status = "quantity"
          THEN FloatOf(Suffix(Head(scans).barcode, barcode_quantity_prefix))
          ELSE 0) + QuantitySum(Tail(scans))
\* the callback invocations made so far, over all devices
Invocations ==
    {<<d, i>> \in Paths \X (1..MaxCoreScans) : i <= Len(log[d])}

\* C21 (as stated): once every invocation of handle_barcode has returned,
\* each scan is recorded in recent_scans and current_quantity is the sum of
\* the amounts of the quantity barcodes handled, also when two Readers ran
\* handle_barcode at the same time.
C21_ConcurrentCallbackSafe ==
    (\A t \in Tids : ~InCall(t)) =>
        /\ Len(recent_scans) = Cardinality(Invocations)
        /\ \A d \in Paths : \A i \in 1..Len(log[d]) :
              \E k \in 1..Len(recent_scans) :
                  recent_scans[k].barcode = log[d][i].barcode
        /\ current_quantity = QuantitySum(recent_scans)

\* C22 (as stated): the list a caller obtained from active_devices keeps the
\* value it had when it was obtained, whatever Readers are spawned or exit
\* afterwards.
C22_ActiveDevicesSnapshot ==
    scanner_devices # NoView => Obtained = scanner_devices.at

\* C23 (as stated): whenever the last key a device's Reader has handled is
\* an Enter and the handling is over (the callback, if one was invoked, has
\* returned or raised), the device's buffer is empty.
C23_EmptyAfterTerminator ==
    \A d \in Paths :
        (hist[d].entered /\ hist[d].run = <<>> /\ ~InCallback(d))
            => Buffer(d) = <<>>

\* Reader t had a callback invocation that raised
HadRaise(t) ==
    /\ th[t].kind = "reader"
    /\ \E i \in 1..Len(log[th[t].dev]) :
          log[th[t].dev][i].by = t /\ log[th[t].dev][i].raised

C26_HandleClosedOnEveryExit ==
    [][\A t \in Tids :
          /\ OpenOk(t) => ~th[t].handle
          /\ (ShortRead(t) \/ ReadError(t) \/ CallbackRaise(t) \/ InnerExit(t))
                => (th[t].handle /\ ~th'[t].handle)
          /\ th'[t].handle <=>
                (th'[t].kind = "reader" /\ th'[t].pc \in {"inner", "callback"})
          /\ th'[t].pc \in {"exit", "done"} => ~th'[t].handle]_vars

\* a Reader that delivered a barcode, so had its device open, has exited
\* and holds no handle
C26_Witness ==
    \E t \in Tids :
        /\ th[t].kind = "reader" /\ th[t].pc = "done"
        /\ ~th[t].handle
        /\ \E i \in 1..Len(log[th[t].dev]) : log[th[t].dev][i].by = t

\* occurrences of a device in a list
Count(d, list) == Cardinality({i \in 1..Len(list) : list[i] = d})

\* C27: a step of start() or of the monitor (its discovery included) keeps
\* every entry of active_devices, whether or not the device is accessible
\* or in the discovery's result; an entry for a device disappears only in
\* the exit step of a Reader of that device, one entry per exit.
C27_OnlyReaderExitRemoves ==
    [][/\ (StartCall \/ StartSpawn \/ StartAppend \/ MonitorStep) =>
             /\ Len(active_devices') >= Len(active_devices)
             /\ SubSeq(active_devices', 1, Len(active_devices))
                   = active_devices
       /\ \A d \in Paths :
             Count(d, active_devices') < Count(d, active_devices) =>
                /\ Count(d, active_devices') = Count(d, active_devices) - 1
                /\ \E t \in Tids : ReaderExit(t) /\ th[t].dev = d]_vars

\* the monitor's discovery has just returned /dev/hidraw1 only, while
\* /dev/hidraw0 is unplugged and still listed
C27_Witness ==
    \E m \in Tids :
        /\ th[m].kind = "monitor" /\ th[m].pc = "visit"
        /\ th[m].devices = <<H1>>
        /\ dev[H0] = "gone"
        /\ InList(H0, active_devices)

\* what the specification's decoder does with one key code
SpecKey(device, buf, code) ==
    IF IsEnter(device, code) THEN [buf |-> buf, call |-> buf # <<>>]
    ELSE IF Mapped(device, code)
         THEN [buf |-> Append(buf, CharOf(device, code)), call |-> FALSE]
    ELSE [buf |-> buf, call |-> FALSE]
\* the hidraw and the input-event devices that have a buffer
HidBuffers == {d \in DOMAIN barcode_buffers : IsHidraw(d)}
EventBuffers == {d \in DOMAIN barcode_buffers : ~IsHidraw(d)}

\* C28: on every buffer a hidraw Reader gets to, every byte value in a key
\* slot is handled as the table says: 4..29 append "A".."Z", 30..38 append
\* "1".."9", 39 appends "0", 45..48 append "-", "=", "[", "]", 40 invokes
\* the callback when the buffer is not empty and appends nothing, and any
\* other value (0 too) changes nothing and invokes nothing.
C28_HidTable ==
    \A d \in HidBuffers : \A key_code \in AllCodes :
        /\ HidKey(Buffer(d), key_code) = SpecKey(d, Buffer(d), key_code)
        /\ key_code \in 4..29 =>
              HidKey(Buffer(d), key_code).buf
                 = Append(Buffer(d), Letters[key_code - 3])
        /\ key_code \in (0..3) \cup (41..44) \cup (49..MaxCode) =>
              HidKey(Buffer(d), key_code) = [buf |-> Buffer(d), call |-> FALSE]

\* usage code 48 was read: the buffer holds "]"
C28_Witness ==
    /\ hist[H0].sent = <<48>>
    /\ Buffer(H0) = <<"]">>
    /\ log[H0] = <<>>

\* C29: on every buffer an input-event Reader gets to, every key code is
\* handled as the table says: 28 invokes the callback when the buffer is
\* not empty and appends nothing, 2..10 append "1".."9", 11 appends "0",
\* 16..25, 30..38 and 44..50 append the QWERTY letters, 12 and 13 append
\* "-" and "=", and any other code changes nothing and invokes nothing.
C29_InputTable ==
    \A d \in EventBuffers : \A code \in AllCodes :
        /\ InputKeycode(Buffer(d), code) = SpecKey(d, Buffer(d), code)
        /\ code \in 2..10 =>
              InputKeycode(Buffer(d), code).buf
                 = Append(Buffer(d), DigitStr(code - 1))
        /\ code \in (0..1) \cup (14..15) \cup (26..27) \cup {29}
                      \cup (39..43) \cup (51..MaxCode) =>
              InputKeycode(Buffer(d), code) = [buf |-> Buffer(d), call |-> FALSE]

\* key code 11 was read: the buffer holds "0"
C29_Witness ==
    /\ hist[E0].sent = <<11>>
    /\ Buffer(E0) = <<"0">>
    /\ log[E0] = <<>>

\* C30: a record of an input-event device whose type is not 1 or whose
\* value is not 1 changes no buffer and invokes no callback, whatever its
\* code (28 too) and whatever the buffer holds.
C30_OnlyKeyDown ==
    [][\A t \in Tids :
          th[t].kind = "reader" /\ ~IsHidraw(th[t].dev) =>
             \A frame \in FilteredEvents :
                 ReadRecord(t, frame) =>
                    /\ barcode_buffers' = barcode_buffers
                    /\ log' = log
                    /\ th'[t].pc = "inner"]_vars

\* "A" is pending and was not delivered, while records other than
\* key-down ones could be read
C30_Witness ==
    \E t \in Tids :
        /\ th[t].kind = "reader" /\ th[t].dev = E0 /\ th[t].pc = "inner"
        /\ Buffer(E0) = <<"A">>
        /\ log[E0] = <<>>
        /\ ~hist[E0].entered

\* values of the modifier byte and of the reserved byte: none, left shift,
\* and the values that are the usage codes of "A" and of Enter
HeaderBytes == {0, 2, 4, 40}
\* the reports that differ from a report in bytes 0 and 1 only
SameKeys(report) ==
    {<<m, r>> \o SubSeq(report, 3, HidFrameSize) :
        m \in HeaderBytes, r \in HeaderBytes}

\* C31: a step in which a hidraw Reader reads a report is the same step for
\* every report with the same bytes 2..7, whatever bytes 0 and 1 are: the
\* same buffer, the same callback invocation, the same position.
C31_HeaderBytesIgnored ==
    [][\A t \in Tids :
          (th[t].kind = "reader" /\ th[t].pc = "inner" /\ IsHidraw(th[t].dev))
             => \A report \in DecodeFrames(th[t].dev) :
                   ReadRecord(t, report) =>
                      \A other \in SameKeys(report) : ReadRecord(t, other)]_vars

\* "A" and Enter were read from reports: one invocation with "A", while
\* the reports with other bytes 0 and 1 would have done the same
C31_Witness ==
    /\ hist[H0].sent = <<4>> /\ hist[H0].scans = 1
    /\ Len(log[H0]) = 1 /\ log[H0][1].barcode = <<"A">>
    /\ log[H0][1].returned
    /\ Buffer(H0) = <<>>

\* the characters of the keys of a list, in the order of the list
RECURSIVE CharsOf(_, _)
CharsOf(d, ks) ==
    IF ks = <<>> THEN <<>>
    ELSE (IF Mapped(d, Head(ks)) THEN <<CharOf(d, Head(ks))>> ELSE <<>>)
            \o CharsOf(d, Tail(ks))
\* the positions of Enter in a list of keys
Enters(d, ks) == {i \in 1..Len(ks) : IsEnter(d, ks[i])}
\* the first Enter of a list of keys that finds characters to deliver after
\* the buffer buf, or 0
Flush(d, buf, ks) ==
    LET at == {i \in Enters(d, ks) : buf \o CharsOf(d, SubSeq(ks, 1, i - 1)) # <<>>}
    IN  IF at = {} THEN 0 ELSE CHOOSE i \in at : \A j \in at : i <= j
\* The keys ks, handled from the buffer buf on by Reader t of device d, as
\* the claim states it: without an Enter that delivers, all characters are
\* appended in slot order; else the callback gets the buffer and the
\* characters before that Enter, and the keys after it are still to come.
SlotOrder(t, d, buf, ks) ==
    LET i == Flush(d, buf, ks)
    IN  IF i = 0
        THEN /\ barcode_buffers'[d] = buf \o CharsOf(d, ks)
             /\ log'[d] = log[d] \/ Len(log'[d]) = Len(log[d])
             /\ th'[t].pc = "inner"
        ELSE /\ barcode_buffers'[d] = buf \o CharsOf(d, SubSeq(ks, 1, i - 1))
             /\ Len(log'[d]) = Len(log[d]) + 1
             /\ log'[d][Len(log'[d])].barcode
                   = buf \o CharsOf(d, SubSeq(ks, 1, i - 1))
             /\ th'[t].pc = "callback"
             /\ th'[t].keys = SubSeq(ks, i + 1, Len(ks))

\* C32: the keys of a report are handled in slot order, and the buffer
\* never spans an Enter: a report read on buffer B appends its characters
\* in slot order; at an Enter with characters X before it the callback
\* gets B + X; when the callback has returned, the keys Y after that Enter
\* are handled from an empty buffer, so that the buffer is exactly Y.
C32_SlotOrderAndFlush ==
    [][\A t \in Tids :
          /\ \A report \in SlotReports :
                ReadReport(t, report) =>
                   SlotOrder(t, th[t].dev, barcode_buffers[th[t].dev],
                             SubSeq(report, 3, HidFrameSize))
          /\ CallbackReturn(t) =>
                SlotOrder(t, th[t].dev, <<>>, th[t].keys)]_vars

\* after the report "A", Enter, "1" on the buffer "1": the callback got
\* "1A" and returned, and the buffer is exactly "1"
C32_Witness ==
    /\ Len(log[H0]) = 1
    /\ log[H0][1].barcode = <<"1", "A">> /\ log[H0][1].returned
    /\ hist[H0].sent = <<30, 4, 30>>
    /\ Buffer(H0) = <<"1">>

\* C33: the buffer map has an entry for a device exactly while a Reader of
\* that device is alive and past the creation of its buffer; the entry is
\* gone once the Reader has terminated.
C33_EntryWhileReaderAlive ==
    \A d \in Paths :
       d \in DOMAIN barcode_buffers
          <=> \E t \in ReadersOf(d) : th[t].pc # "start"

\* a step of start() up to its discovery
StartDiscovers == main.pc = "idle" /\ starts' = starts + 1
\* the list gains an entry
Gains == Len(active_devices') > Len(active_devices)

\* C34: start() spawns a monitor exactly when its discovery returned
\* nothing, and nothing else spawns one; when it returned devices, start()
\* works through exactly that list, and without a monitor there is no
\* discovery pass and active_devices gains only the paths of that list;
\* a monitor, once spawned, ends only when the running flag is cleared,
\* whatever has been found in between.
C34_MonitorIffNothingFound ==
    [][/\ StartDiscovers =>
             /\ Monitors' # Monitors <=> FindAllDevices(dev) = <<>>
             /\ FindAllDevices(dev) # <<>> =>
                   main'.pc = "spawn" /\ main'.devices = FindAllDevices(dev)
       /\ Monitors' # Monitors => StartDiscovers
       /\ (main.pc # "idle" /\ main'.pc # "idle") =>
             main'.devices \in {main.devices, Tail(main.devices)}
       /\ Monitors = {} =>
             /\ \A t \in Tids : ~MonitorScan(t)
             /\ Gains => /\ main.pc = "append"
                         /\ active_devices'
                               = Append(active_devices, Head(main.devices))
       /\ \A t \in Monitors :
             (th[t].pc # "done" /\ th'[t].pc = "done") => ~running]_vars

\* a monitor, spawned because nothing was found, has found the device and
\* started its Reader, and has run a further pass that finds it listed
C34_Witness ==
    \E t \in Monitors :
       /\ running /\ th[t].pc = "visit"
       /\ InList(Head(th[t].devices), active_devices)
       /\ ReadersOf(Head(th[t].devices)) # {}

\* stop() has cleared the running flag
Stopped == starts > 0 /\ ~running

\* C35: once stop() has cleared the flag, no thread is started and
\* active_devices gains no path.
C35_NothingStartsAfterStop ==
    [][Stopped => (Started' = Started /\ ~Gains)]_vars

\* C36: once stop() has cleared the flag, a Reader passes no loop test any
\* more: it reads a frame only if that read was pending, where the next
\* test of the read loop sends it out of the loop, so it handles at most
\* one further frame; it decides on no further open, so after that frame it
\* leaves without opening again; and a Reader at the top of its read loop
\* goes out without reading.
C36_AtMostThePendingFrame ==
    [][Stopped =>
          \A t \in Tids :
             th[t].kind = "reader" =>
                /\ th'[t].pc = "read" => th[t].pc = "read"
                /\ th'[t].pc = "open" => th[t].pc = "open"
                /\ (th'[t].handle /\ ~th[t].handle) => th[t].pc = "open"
                /\ (th[t].pc = "inner" /\ th'[t] # th[t]) =>
                      /\ th'[t].pc = "outer" /\ ~th'[t].handle
                      /\ hist' = hist /\ log' = log
                /\ (th[t].pc \in {"outer", "eof"} /\ th'[t] # th[t]) =>
                      th'[t].pc = "exit"]_vars

\* the flag is cleared while a Reader that has read "A" is in a read whose
\* loop test it passed before: the frame of that read is still to come
C36_Witness ==
    /\ Stopped
    /\ \E t \in ReadersOf(H0) : th[t].pc = "read" /\ th[t].handle
    /\ Buffer(H0) = <<"A">>

\* C37: whenever a Reader opens its device, for the first time or again,
\* the buffer of the device is empty, so that no character from before the
\* open is part of a barcode delivered after it.
C37_OpenStartsEmpty ==
    [][\A t \in Tids :
          (th[t].kind = "reader" /\ ~th[t].handle /\ th'[t].handle)
             => barcode_buffers'[th[t].dev] = <<>>]_vars

\* a stock operation is asked of Grocy in this step
Books == Len(grocy_calls') = Len(grocy_calls) + 1
\* the invocation of Reader t of handle_barcode settles its status in this
\* step
Settles(t) == hb[t].pc \notin {"insert", "done"} /\ hb'[t].pc = "insert"

\* C38: the amount of a product barcode is current_quantity if that is
\* positive, else 1, and the stock operation is asked of Grocy with that
\* amount, in the current mode; an invocation
\* that ends in 'success' has just set current_quantity to 0, one that ends
\* in 'quantity' has added its amount to it, and every other one (failed
\* operation, failed look-up, product not found, mode barcode, invalid
\* quantity barcode) leaves it as it is; nothing else changes it.
C38_QuantityBookedAndReset ==
    [][/\ \A t \in Tids :
             (hb[t].pc = "amount" /\ hb'[t].pc = "book") =>
                hb'[t].amount = IF current_quantity > 0
                                THEN current_quantity ELSE 1
       /\ Books =>
             LET call == grocy_calls'[Len(grocy_calls')]
             IN  /\ call.op = current_mode
                 /\ hb[call.by].pc = "book"
                 /\ call.amount = hb[call.by].amount
                 /\ (hb'[call.by].pc = "reset") = call.success
       /\ \A t \in Tids :
             Settles(t) =>
                CASE hb'[t].status = "success" ->
                        hb[t].pc = "reset" /\ current_quantity' = 0
                  [] hb'[t].status = "quantity" ->
                        current_quantity'
                           = current_quantity + hb[t].quantity_to_add
                  [] OTHER -> current_quantity' = current_quantity
       /\ current_quantity' # current_quantity =>
             \E t \in Tids : Settles(t)]_vars

====
